---- MODULE Spec2Model ----
(***************************************************************************)
(* Model of the DocPilot data layer: DataManager (three in-memory          *)
(* collections written through to localStorage), PatientManager's          *)
(* selection, and the operations that act on them.                         *)
(***************************************************************************)
EXTENDS Integers, Sequences, FiniteSets, TLC

\* ------------------------------------------------------------------ bounds
\* a handler that creates records runs while fewer than MaxAdds records
\* have been created in the behaviour
MaxAdds == 1
\* number of saveDataToStorage calls the storage fails in one behaviour
MaxWriteFailures == 1

\* ------------------------------------------------------- value conventions
\* JS null / a property that is not present on an object
Null == 0
\* JS undefined as a property value (JSON.stringify drops such properties)
Undefined == -1

\* an id that no record ever gets
NoSuchId == 99
\* generateId: parseInt of Date.now() followed by a random 0..999. After n
\* earlier calls it gives one of the ids given before or the next new one
\* (the ids are 10, 11, ...: only their equality matters)
FirstGenId == 10
generateId(n) == { FirstGenId + k : k \in 0..n }
\* ids a caller passes to the store's operations
DeletePatientArgs == {1, 2, 10, NoSuchId}
UpdatePatientArgs == {2, NoSuchId}
ExaminationPatientArgs == {1, NoSuchId}
FilePatientArgs == {1, NoSuchId}
DeleteFileArgs == {1, 10, NoSuchId}
SelectPatientArgs == {1, 2, NoSuchId}
\* of the ids a caller passes, those that match a record of seq, and
\* NoSuchId for the ones that match none
Known(seq, ids) ==
    {id \in ids : \E i \in DOMAIN seq : seq[i].id = id} \cup {NoSuchId}
\* points in time are counted in units of 12 hours; the seed examinations
\* are dated 3, 2 and 1, and a caller passes one of these dates
NewDates == {2, 4}
\* the clock when addPatient runs (new Date().toISOString())
AddNowArgs == {5}

\* ------------------------------------------------------------- seed data
\* an optional property (email) is <<>> when absent and <<value>> when present
loadSamplePatients ==
    << [id |-> 1, firstName |-> "John", lastName |-> "Doe",
        phoneNumber |-> "(555) 123-4567",
        email |-> << "john.doe@email.com" >>,
        dateAdded |-> -30, lastVisit |-> 3, status |-> "active"],
       [id |-> 2, firstName |-> "Jane", lastName |-> "Smith",
        phoneNumber |-> "(555) 987-6543",
        email |-> << "jane.smith@email.com" >>,
        dateAdded |-> -10, lastVisit |-> 2, status |-> "active"],
       [id |-> 3, firstName |-> "Robert", lastName |-> "Johnson",
        phoneNumber |-> "(555) 456-7890",
        email |-> << "robert.johnson@email.com" >>,
        dateAdded |-> -20, lastVisit |-> 1, status |-> "active"] >>

loadSampleExaminations ==
    << [id |-> 1, patientId |-> 1, date |-> 3,
        diagnosis |-> "Essential hypertension, well-controlled",
        status |-> "completed"],
       [id |-> 2, patientId |-> 2, date |-> 2,
        diagnosis |-> "Type 2 diabetes mellitus, good glycemic control",
        status |-> "completed"],
       [id |-> 3, patientId |-> 3, date |-> 1,
        diagnosis |-> "Atypical chest pain, likely musculoskeletal. Rule out cardiac etiology.",
        status |-> "completed"] >>

loadSampleFiles ==
    << [id |-> 1, patientId |-> 1],
       [id |-> 2, patientId |-> 1],
       [id |-> 3, patientId |-> 2],
       [id |-> 4, patientId |-> 3] >>

\* ------------------------------------------------------------ JS helpers
\* Array.prototype.findIndex on the id field; 0 stands for JS -1
FindIndex(seq, id) ==
    IF \E i \in DOMAIN seq : seq[i].id = id
    THEN CHOOSE i \in DOMAIN seq :
            seq[i].id = id /\ \A j \in 1..(i - 1) : seq[j].id # id
    ELSE 0

\* Array.prototype.splice(index, 1): the array without the element at index
Splice(seq, index) ==
    [i \in 1..(Len(seq) - 1) |-> IF i < index THEN seq[i] ELSE seq[i + 1]]

\* filter(x => x.patientId !== id)
FilterNotPatient(seq, id) ==
    LET keep(x) == x.patientId # id IN SelectSeq(seq, keep)

\* filter(x => x.patientId === id)
FilterByPatient(seq, id) ==
    LET keep(x) == x.patientId = id IN SelectSeq(seq, keep)

\* String.prototype.toLowerCase, on the letters A-Z
UpperToLower ==
    [A |-> "a", B |-> "b", C |-> "c", D |-> "d", E |-> "e", F |-> "f",
     G |-> "g", H |-> "h", I |-> "i", J |-> "j", K |-> "k", L |-> "l",
     M |-> "m", N |-> "n", O |-> "o", P |-> "p", Q |-> "q", R |-> "r",
     S |-> "s", T |-> "t", U |-> "u", V |-> "v", W |-> "w", X |-> "x",
     Y |-> "y", Z |-> "z"]

RECURSIVE toLowerCase(_)
toLowerCase(s) ==
    IF Len(s) = 0 THEN ""
    ELSE IF Len(s) = 1
         THEN (IF s \in DOMAIN UpperToLower THEN UpperToLower[s] ELSE s)
    ELSE toLowerCase(SubSeq(s, 1, Len(s) \div 2))
         \o toLowerCase(SubSeq(s, Len(s) \div 2 + 1, Len(s)))

\* String.prototype.toUpperCase of one character
toUpperCase(c) ==
    IF \E u \in DOMAIN UpperToLower : UpperToLower[u] = c
    THEN CHOOSE u \in DOMAIN UpperToLower : UpperToLower[u] = c
    ELSE c

\* String.prototype.includes
Includes(s, t) ==
    \E i \in 0..(Len(s) - Len(t)) : SubSeq(s, i + 1, i + Len(t)) = t

\* String.prototype.trim, for blanks
RECURSIVE trimStart(_)
trimStart(s) ==
    IF s # "" /\ Head(s) = " " THEN trimStart(Tail(s)) ELSE s

RECURSIVE trimEnd(_)
trimEnd(s) ==
    IF s # "" /\ SubSeq(s, Len(s), Len(s)) = " "
    THEN trimEnd(SubSeq(s, 1, Len(s) - 1)) ELSE s

trim(s) == trimEnd(trimStart(s))

\* Utils.capitalize: str.replace(/\w\S*/g, ...) puts the first character of
\* each match in upper case and the rest of the match in lower case. A
\* match starts at the first word character after a blank (or after the
\* start) and runs to the next blank.
WordChars ==
    DOMAIN UpperToLower
    \cup {UpperToLower[u] : u \in DOMAIN UpperToLower}
    \cup {"0", "1", "2", "3", "4", "5", "6", "7", "8", "9", "_"}

\* the character at position i of str as capitalize leaves it
CapitalizedAt(str, i) ==
    LET c == SubSeq(str, i, i)
        blanks == {k \in 1..(i - 1) : SubSeq(str, k, k) = " "}
        from == IF blanks = {} THEN 1
                ELSE 1 + (CHOOSE k \in blanks : \A m \in blanks : m <= k)
        inMatch == \E k \in from..(i - 1) : SubSeq(str, k, k) \in WordChars
    IN  IF c = " " THEN c
        ELSE IF inMatch THEN toLowerCase(c)
        ELSE IF c \in WordChars THEN toUpperCase(c)
        ELSE c

RECURSIVE CapitalizeRange(_, _, _)
CapitalizeRange(str, lo, hi) ==
    IF lo > hi THEN ""
    ELSE IF lo = hi THEN CapitalizedAt(str, lo)
    ELSE CapitalizeRange(str, lo, (lo + hi) \div 2)
         \o CapitalizeRange(str, (lo + hi) \div 2 + 1, hi)

capitalize(str) == CapitalizeRange(str, 1, Len(str))

\* JSON.stringify of one value: undefined property values are dropped
StringifyValue(v) == IF v = Undefined THEN Null ELSE v

\* JSON.stringify of one record: the properties that can hold undefined
\* (a patient's lastVisit, an examination's date) go through StringifyValue
StringifyRecord(r) ==
    IF "lastVisit" \in DOMAIN r
    THEN [r EXCEPT !.lastVisit = StringifyValue(@)]
    ELSE IF "date" \in DOMAIN r
         THEN [r EXCEPT !.date = StringifyValue(@)]
         ELSE r

\* JSON.stringify of an array of records, as the text's content
JSONstringify(seq) == [i \in DOMAIN seq |-> StringifyRecord(seq[i])]

\* an item of localStorage: missing (getItem gives null), a text that
\* JSON.parse rejects, or the text of an array
NoItem == [tag |-> "missing", val |-> <<>>]
CorruptItem == [tag |-> "corrupt", val |-> <<>>]
ArrayItem(seq) == [tag |-> "array", val |-> JSONstringify(seq)]

\* ------------------------------------------------------------------ state
VARIABLES
    patients,           \* let patients (in-memory array)
    examinations,       \* let examinations
    files,              \* let files
    storage,            \* localStorage: the three storageKeys entries
    loaded,             \* DataManager.init() has run in this page
    selectedPatientId,  \* PatientManager.selectedPatientId
    pendingConfirm,     \* deleteSelectedPatient suspended at its await
    faults,             \* number of saves the storage will still fail
    adds,               \* number of records created by add operations
    last,               \* the call that has just returned
    views,              \* what the panels of the page show
    app,                \* App: the page, currentTab, the saved state, timers
    auth,               \* AuthManager, and its localStorage items
    clock               \* Date.now(), in units of five minutes

vars == << patients, examinations, files, storage, loaded,
           selectedPatientId, pendingConfirm, faults, adds, last,
           views, app, auth, clock >>

\* deleteSelectedPatient between its await and its continuation: the patient
\* named in the confirm message and what confirm() answered
NoPending == [active |-> FALSE, asked |-> Null, confirmed |-> FALSE]
Pending(asked, confirmed) ==
    [active |-> TRUE, asked |-> asked, confirmed |-> confirmed]

\* the record of a returned call: op, its argument, the returned value
\* (<<>> for null/undefined, <<v>> otherwise), whether an exception escaped,
\* whether a storage write threw inside it, and the notification it showed
Call(op, arg, ret, threw, saveFailed, notice) ==
    [op |-> op, arg |-> arg, ret |-> ret, threw |-> threw,
     saveFailed |-> saveFailed, notice |-> notice]

\* where the setItem calls of one saveDataToStorage can throw: 0 = nowhere,
\* k = the k-th setItem throws (the ones before it have been written)
FailPoints == 0..3

\* the three setItem calls of saveDataToStorage, up to the one that throws
SetItems(p, e, f, st, failAt) ==
    [patients     |-> IF failAt = 0 \/ failAt > 1 THEN ArrayItem(p)
                      ELSE st.patients,
     examinations |-> IF failAt = 0 \/ failAt > 2 THEN ArrayItem(e)
                      ELSE st.examinations,
     files        |-> IF failAt = 0 THEN ArrayItem(f) ELSE st.files]

\* saveDataToStorage without its try/catch: a throwing setItem leaves it
saveDataToStorageNoCatch(p, e, f, st, failAt) ==
    [st |-> SetItems(p, e, f, st, failAt), threw |-> failAt # 0]

\* saveDataToStorage without the setItem for the files key
saveDataToStorageSkipsFiles(p, e, f, st, failAt) ==
    [st |-> [SetItems(p, e, f, st, failAt) EXCEPT !.files = st.files],
     threw |-> FALSE]

\* saveDataToStorage: the setItem calls inside try, and a catch block that
\* logs and notifies, so that no exception leaves it
saveDataToStorage(p, e, f, st, failAt) ==
    [st |-> SetItems(p, e, f, st, failAt), threw |-> FALSE]

\* the result of a store operation: the collections, the storage, the
\* returned value and the number of saves that threw
Result(p, e, f, st, ret, fails) ==
    [p |-> p, e |-> e, f |-> f, st |-> st, ret |-> ret, fails |-> fails,
     threw |-> FALSE]

\* the result of an operation whose last statement before `return value`
\* is the save sv: an exception leaving the save leaves the operation too
Saved(p, e, f, sv, value, fails) ==
    [p |-> p, e |-> e, f |-> f, st |-> sv.st,
     ret |-> IF sv.threw THEN <<>> ELSE value, fails |-> fails,
     threw |-> sv.threw]

\* a test that also takes a stored empty array for a missing item
TruthyNonEmpty(item) == item.tag # "missing" /\ item.val # <<>>

\* if (storedPatients): getItem gave a non-empty string
Truthy(item) == item.tag # "missing"

Bump(failAt) == IF failAt = 0 THEN 0 ELSE 1

\* loadSampleData: the catch block's fallback, which does not save
loadSampleData(st, fails) ==
    Result(loadSamplePatients, loadSampleExaminations, loadSampleFiles, st,
           << [seeded |-> {"patients", "examinations", "files"},
               caught |-> TRUE] >>, fails)

\* loadDataFromStorage: the three items are read first, then each key is
\* parsed or seeded-and-saved in turn; a JSON.parse exception goes to the
\* catch block. f1, f2, f3 are the fail points of the three possible saves.
loadDataFromStorage(p0, e0, f0, st, f1, f2, f3) ==
    LET storedPatients == st.patients
        storedExaminations == st.examinations
        storedFiles == st.files
        seedP == ~Truthy(storedPatients)
        seedE == ~Truthy(storedExaminations)
        seedF == ~Truthy(storedFiles)
        p1 == IF seedP THEN loadSamplePatients ELSE storedPatients.val
        sv1 == IF seedP THEN saveDataToStorage(p1, e0, f0, st, f1)
               ELSE [st |-> st, threw |-> FALSE]
        n1 == IF seedP THEN Bump(f1) ELSE 0
        e2 == IF seedE THEN loadSampleExaminations
              ELSE storedExaminations.val
        sv2 == IF seedE THEN saveDataToStorage(p1, e2, f0, sv1.st, f2)
               ELSE [st |-> sv1.st, threw |-> FALSE]
        n2 == n1 + (IF seedE THEN Bump(f2) ELSE 0)
        f3v == IF seedF THEN loadSampleFiles ELSE storedFiles.val
        sv3 == IF seedF THEN saveDataToStorage(p1, e2, f3v, sv2.st, f3)
               ELSE [st |-> sv2.st, threw |-> FALSE]
        n3 == n2 + (IF seedF THEN Bump(f3) ELSE 0)
        seeded == (IF seedP THEN {"patients"} ELSE {})
                  \cup (IF seedE THEN {"examinations"} ELSE {})
                  \cup (IF seedF THEN {"files"} ELSE {})
    IN  IF storedPatients.tag = "corrupt" THEN loadSampleData(st, 0)
        ELSE IF sv1.threw \/ storedExaminations.tag = "corrupt"
             THEN loadSampleData(sv1.st, n1)
        ELSE IF sv2.threw \/ storedFiles.tag = "corrupt"
             THEN loadSampleData(sv2.st, n2)
        ELSE IF sv3.threw THEN loadSampleData(sv3.st, n3)
        ELSE Result(p1, e2, f3v, sv3.st,
                    << [seeded |-> seeded, caught |-> FALSE] >>, n3)

\* getPatientById: the first patient with that id, <<>> for undefined
getPatientById(p, id) ==
    IF FindIndex(p, id) = 0 THEN <<>> ELSE << p[FindIndex(p, id)] >>

\* the positions, in a collection, of the records with a patientId
IndicesByPatient(seq, patientId) ==
    LET keep(i) == seq[i].patientId = patientId
    IN  SelectSeq([i \in DOMAIN seq |-> i], keep)

\* what a read returns, as the positions in the store's collection of the
\* record objects the returned value holds. getPatients, getExaminations
\* and getFiles return [...array], the ByPatientId reads return
\* array.filter(...): a new array each time, holding the store's own record
\* objects. getPatientById returns the store's record object itself.
Returned(getter, arg, p, e, f) ==
    CASE getter = "getPatients" ->
           [coll |-> "patients", isArray |-> TRUE,
            refs |-> [i \in DOMAIN p |-> i]]
      [] getter = "getPatientById" ->
           [coll |-> "patients", isArray |-> FALSE,
            refs |-> IF FindIndex(p, arg) = 0 THEN <<>>
                     ELSE << FindIndex(p, arg) >>]
      [] getter = "getExaminations" ->
           [coll |-> "examinations", isArray |-> TRUE,
            refs |-> [i \in DOMAIN e |-> i]]
      [] getter = "getExaminationsByPatientId" ->
           [coll |-> "examinations", isArray |-> TRUE,
            refs |-> IndicesByPatient(e, arg)]
      [] getter = "getFiles" ->
           [coll |-> "files", isArray |-> TRUE,
            refs |-> [i \in DOMAIN f |-> i]]
      [] getter = "getFilesByPatientId" ->
           [coll |-> "files", isArray |-> TRUE,
            refs |-> IndicesByPatient(f, arg)]

\* addPatient: {id: generateId(), ...patientData, dateAdded, status}
addPatient(p, e, f, st, patientData, genId, now, failAt) ==
    LET newPatient ==
            [id |-> IF patientData.id # Null THEN patientData.id ELSE genId,
             firstName |-> patientData.firstName,
             lastName |-> patientData.lastName,
             phoneNumber |-> patientData.phoneNumber,
             email |-> patientData.email,
             dateAdded |-> now,
             lastVisit |-> Null,
             status |-> "active"]
        p1 == Append(p, newPatient)
    IN  Saved(p1, e, f, saveDataToStorage(p1, e, f, st, failAt),
              << newPatient >>, Bump(failAt))

\* updatePatient: shallow merge of patientData over the found record
\* (patientData is a set of <<field, value>> pairs here)
updatePatient(p, e, f, st, id, patientData, failAt) ==
    LET index == FindIndex(p, id)
        merged == [k \in DOMAIN p[index] |->
                     IF \E kv \in patientData : kv[1] = k
                     THEN (CHOOSE kv \in patientData : kv[1] = k)[2]
                     ELSE p[index][k]]
        p1 == [p EXCEPT ![index] = merged]
    IN  IF index # 0
        THEN Saved(p1, e, f, saveDataToStorage(p1, e, f, st, failAt),
                   << merged >>, Bump(failAt))
        ELSE Result(p, e, f, st, <<>>, 0)

\* deletePatient without the filter of the files collection
deletePatientKeepsFiles(p, e, f, st, id, failAt) ==
    LET index == FindIndex(p, id)
        p1 == Splice(p, index)
        e1 == FilterNotPatient(e, id)
    IN  IF index # 0
        THEN Saved(p1, e1, f, saveDataToStorage(p1, e1, f, st, failAt),
                   << p[index] >>, Bump(failAt))
        ELSE Result(p, e, f, st, <<>>, 0)

\* deletePatient: splice out the patient, filter its examinations and files
deletePatient(p, e, f, st, id, failAt) ==
    LET index == FindIndex(p, id)
        p1 == Splice(p, index)
        e1 == FilterNotPatient(e, id)
        f1 == FilterNotPatient(f, id)
    IN  IF index # 0
        THEN Saved(p1, e1, f1, saveDataToStorage(p1, e1, f1, st, failAt),
                   << p[index] >>, Bump(failAt))
        ELSE Result(p, e, f, st, <<>>, 0)

\* addExamination without the lastVisit update
addExaminationNoLastVisit(p, e, f, st, examinationData, genId, failUpd, failAt) ==
    LET newExamination ==
            [id |-> IF examinationData.id # Null THEN examinationData.id
                    ELSE genId,
             patientId |-> examinationData.patientId,
             date |-> examinationData.date,
             diagnosis |-> examinationData.diagnosis,
             status |-> "completed"]
        e1 == Append(e, newExamination)
    IN  Saved(p, e1, f, saveDataToStorage(p, e1, f, st, failAt),
              << newExamination >>, Bump(failAt))

\* addExamination: push, then updatePatient(lastVisit) when the patient is
\* found (which saves), then save
addExamination(p, e, f, st, examinationData, genId, failUpd, failAt) ==
    LET newExamination ==
            [id |-> IF examinationData.id # Null THEN examinationData.id
                    ELSE genId,
             patientId |-> examinationData.patientId,
             date |-> examinationData.date,
             diagnosis |-> examinationData.diagnosis,
             status |-> "completed"]
        e1 == Append(e, newExamination)
        patient == getPatientById(p, examinationData.patientId)
        upd == IF patient # <<>>
               THEN updatePatient(p, e1, f, st, patient[1].id,
                        {<<"lastVisit", examinationData.date>>}, failUpd)
               ELSE Result(p, e1, f, st, <<>>, 0)
    IN  IF upd.threw
        THEN [upd EXCEPT !.ret = <<>>]
        ELSE Saved(upd.p, e1, f,
                   saveDataToStorage(upd.p, e1, f, upd.st, failAt),
                   << newExamination >>, upd.fails + Bump(failAt))

\* addFile: push and save; the patientId is not looked up
addFile(p, e, f, st, fileData, genId, failAt) ==
    LET newFile ==
            [id |-> IF fileData.id # Null THEN fileData.id ELSE genId,
             patientId |-> fileData.patientId]
        f1 == Append(f, newFile)
    IN  Saved(p, e, f1, saveDataToStorage(p, e, f1, st, failAt),
              << newFile >>, Bump(failAt))

\* FileManager.uploadFiles: files.forEach calls addFile for each file, one
\* after the other in the same task, and counts the files saved. genIds and
\* failAts hold, per file, what generateId gives and where the save fails.
RECURSIVE uploadFiles(_, _, _, _, _, _, _)
uploadFiles(p, e, f, st, patientId, genIds, failAts) ==
    IF genIds = <<>> THEN Result(p, e, f, st, << 0 >>, 0)
    ELSE LET r == addFile(p, e, f, st, [id |-> Null, patientId |-> patientId],
                          Head(genIds), Head(failAts))
             rest == uploadFiles(r.p, r.e, r.f, r.st, patientId,
                                 Tail(genIds), Tail(failAts))
         IN  [rest EXCEPT !.ret = << @[1] + (IF r.ret # <<>> THEN 1 ELSE 0) >>,
                          !.fails = @ + r.fails]

\* deleteFile without the test of the index: splice(-1, 1) removes the
\* last file
deleteFileNoIndexTest(p, e, f, st, id, failAt) ==
    LET index == IF FindIndex(f, id) # 0 THEN FindIndex(f, id) ELSE Len(f)
        f1 == Splice(f, index)
    IN  IF f # <<>>
        THEN Saved(p, e, f1, saveDataToStorage(p, e, f1, st, failAt),
                   << f[index] >>, Bump(failAt))
        ELSE Saved(p, e, f, saveDataToStorage(p, e, f, st, failAt),
                   <<>>, Bump(failAt))

\* deleteFile
deleteFile(p, e, f, st, id, failAt) ==
    LET index == FindIndex(f, id)
        f1 == Splice(f, index)
    IN  IF index # 0
        THEN Saved(p, e, f1, saveDataToStorage(p, e, f1, st, failAt),
                   << f[index] >>, Bump(failAt))
        ELSE Result(p, e, f, st, <<>>, 0)

\* Array.prototype.sort((a, b) => new Date(b.date) - new Date(a.date)):
\* a stable sort by descending date, built by insertion
InsertByDate(sorted, x) ==
    LET k == Cardinality({i \in DOMAIN sorted : sorted[i].date >= x.date})
    IN  SubSeq(sorted, 1, k) \o << x >> \o SubSeq(sorted, k + 1, Len(sorted))

RECURSIVE SortByDateDesc(_)
SortByDateDesc(seq) ==
    IF seq = <<>> THEN <<>>
    ELSE InsertByDate(SortByDateDesc(SubSeq(seq, 1, Len(seq) - 1)),
                      seq[Len(seq)])

\* the entry getRecentActivity builds for one examination
Activity(p, exam) ==
    LET patient == getPatientById(p, exam.patientId)
    IN  [id |-> exam.id, patientId |-> exam.patientId, date |-> exam.date,
         diagnosis |-> exam.diagnosis, status |-> exam.status,
         patientName |-> IF patient # <<>>
                         THEN patient[1].firstName \o " " \o patient[1].lastName
                         ELSE "Unknown Patient"]

\* getRecentActivity without slice(0, limit)
getRecentActivityNoSlice(p, e, f, st, limit) ==
    LET sorted == SortByDateDesc(e)
    IN  Result(p, sorted, f, st,
               << [i \in DOMAIN sorted |-> Activity(p, sorted[i])] >>, 0)

\* getRecentActivity: examinations.sort(...) sorts the array in place, then
\* slice(0, limit) and map
getRecentActivity(p, e, f, st, limit) ==
    LET sorted == SortByDateDesc(e)
        n == IF limit < Len(sorted) THEN limit ELSE Len(sorted)
    IN  Result(p, sorted, f, st,
               << [i \in 1..n |-> Activity(p, sorted[i])] >>, 0)

\* the filter callback of searchPatients for one patient: the || chain is
\* evaluated left to right and stops at the first true operand;
\* patient.email.toLowerCase() throws a TypeError when email is undefined
SearchOutcome(patient, searchTerm) ==
    IF Includes(toLowerCase(patient.firstName), searchTerm) THEN "match"
    ELSE IF Includes(toLowerCase(patient.lastName), searchTerm) THEN "match"
    ELSE IF Includes(patient.phoneNumber, searchTerm) THEN "match"
    ELSE IF patient.email = <<>> THEN "throw"
    ELSE IF Includes(toLowerCase(patient.email[1]), searchTerm) THEN "match"
    ELSE IF Includes(toLowerCase(patient.firstName \o " " \o patient.lastName),
                     searchTerm) THEN "match"
    ELSE "nomatch"

\* searchPatients
searchPatients(p, e, f, st, query) ==
    LET searchTerm == toLowerCase(query)
        keep(patient) == SearchOutcome(patient, searchTerm) = "match"
        throws == \E i \in DOMAIN p :
                     SearchOutcome(p[i], searchTerm) = "throw"
    IN  IF query = "" \/ trim(query) = ""
        THEN Result(p, e, f, st, << p >>, 0)
        ELSE IF throws
             THEN [Result(p, e, f, st, <<>>, 0) EXCEPT !.threw = TRUE]
             ELSE Result(p, e, f, st, << SelectSeq(p, keep) >>, 0)

\* Date.prototype.toDateString: the calendar day, in the zone that is
\* offset 12-hour units ahead of UTC, of a point in time
toDateString(t, offset) == (t + offset) \div 2

\* getStatistics that compares the UTC days
getStatisticsUTC(p, e, f, st, now, offset) ==
    LET todayExams == {i \in DOMAIN e : e[i].date \div 2 = now \div 2}
    IN  Result(p, e, f, st,
               << [totalPatients |-> Len(p),
                   todayExaminations |-> Cardinality(todayExams),
                   totalFiles |-> Len(f),
                   activePatients |->
                      Cardinality({i \in DOMAIN p :
                                     p[i].status = "active"})] >>, 0)

\* getStatistics
getStatistics(p, e, f, st, now, offset) ==
    LET today == toDateString(now, offset)
        todayExams == {i \in DOMAIN e :
                         toDateString(e[i].date, offset) = today}
    IN  Result(p, e, f, st,
               << [totalPatients |-> Len(p),
                   todayExaminations |-> Cardinality(todayExams),
                   totalFiles |-> Len(f),
                   activePatients |->
                      Cardinality({i \in DOMAIN p :
                                     p[i].status = "active"})] >>, 0)

\* 7 * 24 * 60 * 60 * 1000 ms in 12-hour units
Week == 7 * 2

\* a trend ((thisWeek - lastWeek) / lastWeek) * 100 as << numerator,
\* denominator >>; 0 when lastWeek is 0
Trend(thisWeek, lastWeek) ==
    IF lastWeek = 0 THEN << 0, 1 >>
    ELSE << (thisWeek - lastWeek) * 100, lastWeek >>

\* DashboardManager.calculateTrends, on the copies that getExaminations and
\* getPatients return
calculateTrends(p, e, f, st, now) ==
    LET oneWeekAgo == now - Week
        twoWeeksAgo == now - 2 * Week
        thisWeekExams == Cardinality({i \in DOMAIN e :
                                        e[i].date >= oneWeekAgo})
        lastWeekExams == Cardinality({i \in DOMAIN e :
                            e[i].date >= twoWeeksAgo /\ e[i].date < oneWeekAgo})
        thisWeekPatients == Cardinality({i \in DOMAIN p :
                                           p[i].dateAdded >= oneWeekAgo})
        lastWeekPatients == Cardinality({i \in DOMAIN p :
                               /\ p[i].dateAdded >= twoWeeksAgo
                               /\ p[i].dateAdded < oneWeekAgo})
    IN  Result(p, e, f, st,
               << [examinations |->
                      [thisWeek |-> thisWeekExams, lastWeek |-> lastWeekExams,
                       trend |-> Trend(thisWeekExams, lastWeekExams)],
                   newPatients |->
                      [thisWeek |-> thisWeekPatients,
                       lastWeek |-> lastWeekPatients,
                       trend |-> Trend(thisWeekPatients, lastWeekPatients)]] >>,
               0)

\* sort(([,a], [,b]) => b - a): a stable sort by descending count
InsertByCount(sorted, x) ==
    LET k == Cardinality({i \in DOMAIN sorted : sorted[i].count >= x.count})
    IN  SubSeq(sorted, 1, k) \o << x >> \o SubSeq(sorted, k + 1, Len(sorted))

RECURSIVE SortByCountDesc(_)
SortByCountDesc(seq) ==
    IF seq = <<>> THEN <<>>
    ELSE InsertByCount(SortByCountDesc(SubSeq(seq, 1, Len(seq) - 1)),
                       seq[Len(seq)])

\* Math.round(count / total * 100), 0 when total is 0
Percentage(count, total) ==
    IF total > 0 THEN (200 * count + total) \div (2 * total) ELSE 0

\* the key under which getTopDiagnoses counts an examination, and whether
\* it counts it (exam.diagnosis && exam.diagnosis.trim())
DiagnosisKey(exam) == toLowerCase(trim(exam.diagnosis))
HasDiagnosis(exam) == exam.diagnosis # "" /\ trim(exam.diagnosis) # ""

\* DashboardManager.getTopDiagnoses: the entries of diagnosisCount in the
\* order in which their keys were first seen, sorted by count, the first
\* five, each with its share of examinations.length
getTopDiagnoses(p, e, f, st) ==
    LET first(i) == /\ HasDiagnosis(e[i])
                    /\ \A j \in 1..(i - 1) :
                          ~(HasDiagnosis(e[j])
                            /\ DiagnosisKey(e[j]) = DiagnosisKey(e[i]))
        firsts == SelectSeq([i \in DOMAIN e |-> i], first)
        diagnosisCount ==
            [k \in DOMAIN firsts |->
               [diagnosis |-> DiagnosisKey(e[firsts[k]]),
                count |-> Cardinality({j \in DOMAIN e :
                             /\ HasDiagnosis(e[j])
                             /\ DiagnosisKey(e[j]) = DiagnosisKey(e[firsts[k]])})]]
        sorted == SortByCountDesc(diagnosisCount)
        top == SubSeq(sorted, 1, IF Len(sorted) < 5 THEN Len(sorted) ELSE 5)
    IN  Result(p, e, f, st,
               << [k \in DOMAIN top |->
                     [diagnosis |-> capitalize(top[k].diagnosis),
                      count |-> top[k].count,
                      percentage |-> Percentage(top[k].count, Len(e))]] >>, 0)

\* importData: JSON.parse, then each collection present in the data
\* replaces the in-memory one, then save. A collection of jsonData is
\* <<>> when the property is absent and <<array>> when it is present.
importData(p, e, f, st, jsonData, failAt) ==
    LET p1 == IF jsonData.patients # <<>> THEN jsonData.patients[1] ELSE p
        e1 == IF jsonData.examinations # <<>>
              THEN jsonData.examinations[1] ELSE e
        f1 == IF jsonData.files # <<>> THEN jsonData.files[1] ELSE f
        sv == saveDataToStorage(p1, e1, f1, st, failAt)
    IN  IF jsonData.ok
        THEN Result(p1, e1, f1, sv.st, << ~sv.threw >>, Bump(failAt))
        ELSE Result(p, e, f, st, << FALSE >>, 0)

\* clearAllData
clearAllData(p, e, f, st, failAt) ==
    Saved(<<>>, <<>>, <<>>, saveDataToStorage(<<>>, <<>>, <<>>, st, failAt),
          <<>>, Bump(failAt))

\* ------------------------------------------------------------ inputs
\* what a caller passes to addPatient: a patient without the optional email
PatientDataArgs ==
    { [id |-> Null, firstName |-> "Ann", lastName |-> "Lee",
       phoneNumber |-> "(555) 000-1111", email |-> <<>>] }

\* the diagnosis a caller passes with an examination dated d: none with
\* the later date, the first seed diagnosis in another case and with
\* blanks around it with the earlier one
DiagnosisArg(d) ==
    IF d = 4 THEN ""
    ELSE "  ESSENTIAL hypertension, well-controlled "

ExaminationDataArgs ==
    { [id |-> Null, patientId |-> pid, date |-> d,
       diagnosis |-> DiagnosisArg(d)] :
        pid \in ExaminationPatientArgs, d \in NewDates }

FileDataArgs ==
    { [id |-> Null, patientId |-> pid] : pid \in FilePatientArgs }

\* partial fields a caller passes to updatePatient: a new status, or an id
UpdateArgs == { {<<"status", "inactive">>}, {<<"id", 3>>} }

LimitArgs == {2, 5}

\* the reads whose returned value a caller changes, and the id it asks for
Getters == {"getPatients", "getPatientById", "getExaminations",
            "getExaminationsByPatientId", "getFiles", "getFilesByPatientId"}
GetterArgs == {1, NoSuchId}

\* what a user types into the search box
QueryArgs == {"", "  ", "JO", "e s", "555", "lee"}

\* the clock when a statistic is computed, and the zone's offset from UTC,
\* in 12-hour units
NowArgs == {3, 4, 5}
Offsets == {-1, 0, 1}

\* number of files of one upload
UploadCounts == {1, 2}

NoCollection == <<>>

ImportArgs ==
    { [ok |-> FALSE, patients |-> NoCollection,
       examinations |-> NoCollection, files |-> NoCollection],
      [ok |-> TRUE, patients |-> NoCollection,
       examinations |-> NoCollection, files |-> NoCollection],
      [ok |-> TRUE, patients |-> << SubSeq(loadSamplePatients, 2, 3) >>,
       examinations |-> NoCollection, files |-> NoCollection],
      [ok |-> TRUE, patients |-> << <<>> >>,
       examinations |-> << SubSeq(loadSampleExaminations, 1, 1) >>,
       files |-> << <<>> >>] }

\* -------------------------------------------------------------- views
\* PatientManager.renderPatients: a card for each patient, in store order,
\* with the selected one marked
renderPatients(p, selected) ==
    [k \in DOMAIN p |->
        [id |-> p[k].id,
         name |-> p[k].firstName \o " " \o p[k].lastName,
         lastVisit |-> p[k].lastVisit,
         status |-> p[k].status,
         isSelected |-> selected = p[k].id]]

\* ExaminationManager.loadExaminationHistory: the patient's examinations,
\* the most recent first (the sort is on the filtered copy)
loadExaminationHistory(e, patientId) ==
    SortByDateDesc(FilterByPatient(e, patientId))

\* ExaminationManager.updateForSelectedPatient: without an id, or without
\* a patient of that id, a message, no form and no history
examinationTabFor(p, e, patientId) ==
    LET patient == getPatientById(p, patientId)
    IN  IF patientId = Null
        THEN [info |-> "select a patient", patient |-> <<>>,
              form |-> FALSE, history |-> <<>>]
        ELSE IF patient = <<>>
        THEN [info |-> "patient not found", patient |-> <<>>,
              form |-> FALSE, history |-> <<>>]
        ELSE [info |-> "selected patient",
              patient |-> << [id |-> patient[1].id,
                              name |-> patient[1].firstName \o " "
                                          \o patient[1].lastName] >>,
              form |-> TRUE,
              history |-> loadExaminationHistory(e, patientId)]

\* FileManager.loadPatientFiles: the patient's files
loadPatientFiles(f, patientId) == FilterByPatient(f, patientId)

\* FileManager.updateForSelectedPatient: without an id, or without a
\* patient of that id, a message and the management section hidden; the
\* file list element keeps what it held
filesTabFor(p, f, patientId, shown) ==
    LET patient == getPatientById(p, patientId)
    IN  IF patientId = Null
        THEN [info |-> "select a patient", patient |-> <<>>,
              management |-> FALSE, list |-> shown.list]
        ELSE IF patient = <<>>
        THEN [info |-> "patient not found", patient |-> <<>>,
              management |-> FALSE, list |-> shown.list]
        ELSE [info |-> "selected patient",
              patient |-> << [id |-> patient[1].id,
                              name |-> patient[1].firstName \o " "
                                          \o patient[1].lastName] >>,
              management |-> TRUE,
              list |-> loadPatientFiles(f, patientId)]

\* DashboardManager.updateStats: the totals on the stat cards (the count
\* of today's examinations depends on the wall clock and is left out)
updateStats(p, f, shown) ==
    [shown EXCEPT !.totalPatients = Len(p), !.totalFiles = Len(f)]

\* APP_CONFIG.ui.maxRecentActivity
maxRecentActivity == 5

\* DashboardManager.updateRecentActivity: DataManager.getRecentActivity
\* sorts the examinations array in place; the cards show what it returns
updateRecentActivity(p, e, f, st, shown) ==
    LET r == getRecentActivity(p, e, f, st, maxRecentActivity)
    IN  [e |-> r.e, shown |-> [shown EXCEPT !.recentActivity = r.ret[1]]]

\* the panels as the page's HTML has them before any script has run
InitialViews ==
    [patientsList |-> <<>>,
     examinationTab |-> [info |-> "select a patient", patient |-> <<>>,
                         form |-> FALSE, history |-> <<>>],
     filesTab |-> [info |-> "select a patient", patient |-> <<>>,
                   management |-> FALSE, list |-> <<>>],
     dashboard |-> [totalPatients |-> 0, totalFiles |-> 0,
                    recentActivity |-> <<>>]]

\* ------------------------------------------------------- App and session
\* the one account: demoCredentials.userData.id
DemoUser == 1

\* the fields of App, and the physicianDashboardState item (<<>> when
\* there is none); the timers are those restoreApplicationState started
NoTimers == [switchTab |-> <<>>, selectPatient |-> <<>>]

FreshApp(page, saved) ==
    [page |-> page, isInitialized |-> FALSE, currentTab |-> "dashboard",
     saved |-> saved, timers |-> NoTimers, sessionTimers |-> FALSE]

\* the fields of AuthManager in a fresh page, with the physicianDashboardAuth
\* item (session) and the physicianDashboardLockout item (lockout); pending
\* holds the handleLogin calls that wait at their await
FreshAuth(session, lockout) ==
    [isAuthenticated |-> FALSE, currentUser |-> Null, session |-> session,
     loginAttempts |-> 0, lockout |-> lockout, pending |-> <<>>]

\* the page before DOMContentLoaded: empty module-level arrays, no
\* selection, and a given localStorage and number of failing saves
StartPage(st, n, page, session) ==
    /\ patients = <<>>
    /\ examinations = <<>>
    /\ files = <<>>
    /\ storage = st
    /\ loaded = FALSE
    /\ selectedPatientId = Null
    /\ pendingConfirm = NoPending
    /\ faults = n
    /\ adds = 0
    /\ last = Call("none", Null, <<>>, FALSE, FALSE, "none")
    /\ views = InitialViews
    /\ app = FreshApp(page, <<>>)
    /\ auth = FreshAuth(session, <<>>)
    /\ clock = 0

\* the dashboard page before DOMContentLoaded, nobody signed in
Start(st, n) == StartPage(st, n, "app", <<>>)

StorageKeys == {"patients", "examinations", "files"}

\* a first run: nothing in localStorage
EmptyStorage == [k \in StorageKeys |-> NoItem]

Init == Start(EmptyStorage, 0)

\* ---------------------------------------------------------------- actions
\* commit the result r of a store operation
Commit(r, call) ==
    /\ r.fails <= faults
    /\ patients' = r.p
    /\ examinations' = r.e
    /\ files' = r.f
    /\ storage' = r.st
    /\ faults' = faults - r.fails
    /\ last' = call

\* a page load: the module-level arrays start empty, PatientManager starts
\* with no selection, DOMContentLoaded runs DataManager.init()
Load ==
    \E f1, f2, f3 \in FailPoints :
        LET r == loadDataFromStorage(<<>>, <<>>, <<>>, storage, f1, f2, f3)
        IN  /\ f1 # 0 => storage.patients.tag = "missing"
            /\ f2 # 0 => storage.examinations.tag = "missing"
            /\ f3 # 0 => storage.files.tag = "missing"
            /\ Commit(r, Call("loadDataFromStorage", Null, r.ret, r.threw,
                              r.fails > 0,
                              IF r.fails > 0 THEN "warning" ELSE "none"))
            /\ loaded' = TRUE
            /\ selectedPatientId' = Null
            /\ pendingConfirm' = NoPending
            /\ UNCHANGED << adds, views, app, auth, clock >>

StoreCall(op, arg, r) ==
    /\ loaded
    /\ Commit(r, Call(op, arg, r.ret, r.threw, r.fails > 0,
                      IF r.fails > 0 THEN "warning" ELSE "none"))
    /\ UNCHANGED << loaded, selectedPatientId, pendingConfirm, app, auth,
                    clock >>

\* a direct call of a DataManager operation: no panel is refreshed
DataManagerCall(op, arg, r) ==
    /\ StoreCall(op, arg, r)
    /\ UNCHANGED views

\* a store call that creates a record (and so calls generateId)
StoreAdd(op, arg, r) ==
    /\ adds < MaxAdds
    /\ adds' = adds + 1
    /\ DataManagerCall(op, arg, r)

\* a store call that creates none
StoreOp(op, arg, r) ==
    /\ UNCHANGED adds
    /\ DataManagerCall(op, arg, r)

AddPatient ==
    \E data \in PatientDataArgs, genId \in generateId(adds),
       now \in AddNowArgs, failAt \in FailPoints :
        /\ StoreAdd("addPatient", data.id,
                     addPatient(patients, examinations, files, storage,
                                data, genId, now, failAt))

UpdatePatient ==
    \E id \in Known(patients, UpdatePatientArgs), data \in UpdateArgs, failAt \in FailPoints :
        /\ failAt # 0 => FindIndex(patients, id) # 0
        /\ StoreOp("updatePatient", id,
                     updatePatient(patients, examinations, files, storage,
                                   id, data, failAt))

DeletePatient ==
    \E id \in Known(patients, DeletePatientArgs), failAt \in FailPoints :
        /\ failAt # 0 => FindIndex(patients, id) # 0
        /\ StoreOp("deletePatient", id,
                     deletePatient(patients, examinations, files, storage,
                                   id, failAt))

AddExamination ==
    \E data \in ExaminationDataArgs, genId \in generateId(adds),
       failUpd \in FailPoints, failAt \in FailPoints :
        /\ data.patientId \in Known(patients, ExaminationPatientArgs)
        /\ failUpd # 0 => FindIndex(patients, data.patientId) # 0
        /\ StoreAdd("addExamination", data.patientId,
                     addExamination(patients, examinations, files, storage,
                                    data, genId, failUpd, failAt))

AddFile ==
    \E data \in FileDataArgs, genId \in generateId(adds),
       failAt \in FailPoints :
        /\ data.patientId \in Known(patients, FilePatientArgs)
        /\ StoreAdd("addFile", data.patientId,
                     addFile(patients, examinations, files, storage,
                             data, genId, failAt))

DeleteFile ==
    \E id \in Known(files, DeleteFileArgs), failAt \in FailPoints :
        /\ failAt # 0 => FindIndex(files, id) # 0
        /\ StoreOp("deleteFile", id,
                     deleteFile(patients, examinations, files, storage,
                                id, failAt))

\* FileManager.uploadFiles with one or two files for an existing patient;
\* when a file was saved, the file list and the stat cards are refreshed
UploadFiles ==
    \E patientId \in Known(patients, FilePatientArgs) \ {NoSuchId},
       n \in UploadCounts,
       g1 \in generateId(adds), g2 \in generateId(adds + 1),
       fa1 \in FailPoints, fa2 \in FailPoints :
        LET r == uploadFiles(patients, examinations, files, storage,
                             patientId, SubSeq(<< g1, g2 >>, 1, n),
                             SubSeq(<< fa1, fa2 >>, 1, n))
        IN  /\ adds < MaxAdds
            /\ n = 1 => (g2 = g1 /\ fa2 = fa1)
            /\ adds' = adds + n
            /\ StoreCall("uploadFiles", patientId, r)
            /\ views' = IF r.ret[1] > 0
                        THEN [views EXCEPT
                                !.filesTab.list =
                                    loadPatientFiles(r.f, patientId),
                                !.dashboard =
                                    updateStats(r.p, r.f, @)]
                        ELSE views

\* a caller changes, in place, the value a read returned: it pops the
\* returned array (which is the caller's own), or assigns the status of the
\* k-th record object in it (which is the store's)
MutateReturned ==
    \E getter \in Getters, arg \in Known(patients, GetterArgs) :
        LET r == Returned(getter, arg, patients, examinations, files)
        IN  /\ loaded
            /\ (arg # 1) => getter \in {"getPatientById",
                    "getExaminationsByPatientId", "getFilesByPatientId"}
            /\ \/ /\ r.isArray
                  /\ last' = Call("mutateReturned", getter, << "pop" >>,
                                  FALSE, FALSE, "none")
                  /\ UNCHANGED << patients, examinations >>
               \/ /\ r.coll = "patients"
                  /\ \E k \in DOMAIN r.refs :
                        patients' = [patients EXCEPT
                                       ![r.refs[k]].status = "archived"]
                  /\ last' = Call("mutateReturned", getter, << "status" >>,
                                  FALSE, FALSE, "none")
                  /\ UNCHANGED examinations
               \/ /\ r.coll = "examinations"
                  /\ \E k \in DOMAIN r.refs :
                        examinations' = [examinations EXCEPT
                                           ![r.refs[k]].status = "archived"]
                  /\ last' = Call("mutateReturned", getter, << "status" >>,
                                  FALSE, FALSE, "none")
                  /\ UNCHANGED patients
            /\ UNCHANGED << files, storage, loaded, selectedPatientId,
                            pendingConfirm, faults, adds, views, app, auth,
                            clock >>

GetRecentActivity ==
    \E limit \in LimitArgs :
        StoreOp("getRecentActivity", limit,
                  getRecentActivity(patients, examinations, files, storage,
                                    limit))

SearchPatients ==
    \E query \in QueryArgs :
        StoreOp("searchPatients", query,
                  searchPatients(patients, examinations, files, storage,
                                 query))

GetStatistics ==
    \E now \in NowArgs, offset \in Offsets :
        StoreOp("getStatistics", [now |-> now, offset |-> offset],
                  getStatistics(patients, examinations, files, storage,
                                now, offset))

CalculateTrends ==
    \E now \in NowArgs :
        StoreOp("calculateTrends", now,
                  calculateTrends(patients, examinations, files, storage,
                                  now))

GetTopDiagnoses ==
    StoreOp("getTopDiagnoses", Null,
              getTopDiagnoses(patients, examinations, files, storage))

ImportData ==
    \E jsonData \in ImportArgs, failAt \in FailPoints :
        /\ failAt # 0 => jsonData.ok
        /\ StoreOp("importData", Null,
                     importData(patients, examinations, files, storage,
                                jsonData, failAt))

ClearAllData ==
    \E failAt \in FailPoints :
        StoreOp("clearAllData", Null,
                  clearAllData(patients, examinations, files, storage,
                               failAt))

\* the three refreshes of selectPatient without the last one
selectPatientViewsNoFiles(p, e, f, patientId, shown) ==
    [shown EXCEPT
       !.patientsList = renderPatients(p, patientId),
       !.examinationTab = examinationTabFor(p, e, patientId)]

\* the refreshes of selectPatient: the patient list, then the examination
\* tab, then the files tab, each for the id just stored
selectPatientViews(p, e, f, patientId, shown) ==
    [shown EXCEPT
       !.patientsList = renderPatients(p, patientId),
       !.examinationTab = examinationTabFor(p, e, patientId),
       !.filesTab = filesTabFor(p, f, patientId, @)]

\* PatientManager.selectPatient(patientId), called by op: the id is stored
\* first and the panels are refreshed; the notification at the end reads
\* patient.firstName, which throws when no patient has that id
selectPatient(op, patientId) ==
    LET patient == getPatientById(patients, patientId)
    IN  /\ selectedPatientId' = patientId
        /\ views' = selectPatientViews(patients, examinations, files,
                                       patientId, views)
        /\ last' = Call(op, patientId, <<>>, patient = <<>>, FALSE,
                        IF patient = <<>> THEN "none" ELSE "info")
        /\ UNCHANGED << patients, examinations, files, storage, loaded,
                        pendingConfirm, faults, adds, auth, clock >>

\* a click on a patient card, or another caller of selectPatient
SelectPatient ==
    \E patientId \in Known(patients, SelectPatientArgs) :
        /\ loaded
        /\ selectPatient("selectPatient", patientId)
        /\ UNCHANGED app

\* PatientManager.deleteSelectedPatient up to its await: the two early
\* returns, or confirm() answers and the continuation is queued
DeleteSelectedPatient ==
    /\ loaded
    /\ ~pendingConfirm.active
    /\ LET patient == getPatientById(patients, selectedPatientId)
       IN  \/ /\ selectedPatientId = Null
              /\ last' = Call("deleteSelectedPatient", Null, <<>>, FALSE,
                              FALSE, "warning")
              /\ UNCHANGED pendingConfirm
           \/ /\ selectedPatientId # Null
              /\ patient = <<>>
              /\ last' = Call("deleteSelectedPatient", selectedPatientId,
                              <<>>, FALSE, FALSE, "error")
              /\ UNCHANGED pendingConfirm
           \/ /\ selectedPatientId # Null
              /\ patient # <<>>
              /\ \E confirmed \in BOOLEAN :
                    pendingConfirm' = Pending(selectedPatientId, confirmed)
              /\ last' = Call("showConfirm", selectedPatientId, <<>>,
                              FALSE, FALSE, "none")
    /\ UNCHANGED << patients, examinations, files, storage, loaded,
                    selectedPatientId, faults, adds, views, app, auth,
                    clock >>

\* the continuation of deleteSelectedPatient after the await: it deletes
\* the patient selected now and clears the selection when one was deleted
ResumeDeleteSelectedPatient ==
    /\ loaded
    /\ pendingConfirm.active
    /\ pendingConfirm' = NoPending
    /\ UNCHANGED << loaded, adds, app, auth, clock >>
    /\ \/ /\ ~pendingConfirm.confirmed
          /\ last' = Call("deleteSelectedPatient", pendingConfirm.asked,
                          <<>>, FALSE, FALSE, "none")
          /\ UNCHANGED << patients, examinations, files, storage,
                          selectedPatientId, faults, views >>
       \/ /\ pendingConfirm.confirmed
          /\ \E failAt \in FailPoints :
                LET r == deletePatient(patients, examinations, files,
                                       storage, selectedPatientId, failAt)
                IN  /\ failAt # 0 =>
                          FindIndex(patients, selectedPatientId) # 0
                    /\ Commit(r, Call("deleteSelectedPatient",
                                      pendingConfirm.asked, r.ret, r.threw,
                                      r.fails > 0,
                                      IF r.threw THEN "warning"
                                      ELSE IF r.ret # <<>> THEN "success"
                                      ELSE "error"))
                    /\ selectedPatientId' =
                          IF r.ret # <<>> THEN Null ELSE selectedPatientId
                    /\ views' =
                          IF r.ret # <<>>
                          THEN [views EXCEPT
                                  !.patientsList = renderPatients(r.p, Null),
                                  !.dashboard = updateStats(r.p, r.f, @),
                                  !.examinationTab =
                                      examinationTabFor(r.p, r.e, Null),
                                  !.filesTab =
                                      filesTabFor(r.p, r.f, Null, @)]
                          ELSE views

Next ==
    \/ Load
    \/ AddPatient
    \/ UpdatePatient
    \/ DeletePatient
    \/ AddExamination
    \/ AddFile
    \/ DeleteFile
    \/ GetRecentActivity
    \/ ImportData
    \/ ClearAllData

Spec == Init /\ [][Next]_vars

\* the selection: PatientManager's operations, and the store operations
\* that remove patients
NextSelection ==
    \/ Load
    \/ SelectPatient
    \/ DeleteSelectedPatient
    \/ ResumeDeleteSelectedPatient
    \/ DeletePatient
    \/ AddPatient
    \/ ClearAllData

SpecSelection == Init /\ [][NextSelection]_vars

\* file uploads, and the operations that remove files
NextUpload ==
    \/ Load
    \/ UploadFiles
    \/ AddFile
    \/ DeleteFile
    \/ DeletePatient
    \/ ClearAllData

SpecUpload == Init /\ [][NextUpload]_vars

\* the queries and aggregations, and the operations that change what they see
NextQueries ==
    \/ Load
    \/ AddPatient
    \/ AddExamination
    \/ UpdatePatient
    \/ DeletePatient
    \/ SearchPatients
    \/ GetStatistics
    \/ CalculateTrends
    \/ GetTopDiagnoses
    \/ GetRecentActivity

SpecQueries == Init /\ [][NextQueries]_vars

\* callers that change what the reads returned
NextReaders ==
    \/ Load
    \/ MutateReturned
    \/ DeletePatient

SpecReaders == Init /\ [][NextReaders]_vars

\* the same program on a storage that fails up to MaxWriteFailures saves
\* (setItem throws, e.g. QuotaExceededError)
InitFaulty == Start(EmptyStorage, MaxWriteFailures)

\* page loads and the six mutating operations that end with a save
NextFaulty ==
    \/ Load
    \/ AddPatient
    \/ UpdatePatient
    \/ DeletePatient
    \/ AddExamination
    \/ AddFile
    \/ DeleteFile

SpecFaulty == InitFaulty /\ [][NextFaulty]_vars

\* what an earlier session left under each key, when it left an array
EarlierStored ==
    [patients     |-> ArrayItem(SubSeq(loadSamplePatients, 2, 2)),
     examinations |-> ArrayItem(SubSeq(loadSampleExaminations, 2, 2)),
     files        |-> ArrayItem(SubSeq(loadSampleFiles, 3, 3))]

\* the same program started on a localStorage in which each key is
\* missing, holds a text that JSON.parse rejects, or holds an array
InitAnyStorage ==
    \E st \in [StorageKeys -> {"missing", "corrupt", "array"}] :
        Start([k \in StorageKeys |->
                 CASE st[k] = "missing" -> NoItem
                   [] st[k] = "corrupt" -> CorruptItem
                   [] st[k] = "array" -> EarlierStored[k]], 0)

SpecAnyStorage == InitAnyStorage /\ [][Next]_vars

\* ------------------------------------------------------------ properties
MutatingOps == {"addPatient", "updatePatient", "deletePatient",
                "addExamination", "addFile", "deleteFile"}

StoreOps == MutatingOps \cup {"getRecentActivity", "importData",
                              "clearAllData"}

\* what a successful saveDataToStorage of the collections leaves in storage
Stored(p, e, f) ==
    [patients |-> ArrayItem(p), examinations |-> ArrayItem(e),
     files |-> ArrayItem(f)]

\* the patientIds that occur in a collection of child records
PatientIdsOf(seq) == {seq[i].patientId : i \in DOMAIN seq}

\* C1: once deletePatient(p) has returned the deleted patient, no
\* examination and no file with patientId = p remains, and the examinations
\* and files of every other patient are the same, in the same order.
CascadeIntegrity ==
    [][(last'.op = "deletePatient" /\ last'.ret # <<>>) =>
        /\ FilterByPatient(examinations', last'.arg) = <<>>
        /\ FilterByPatient(files', last'.arg) = <<>>
        /\ \A q \in (PatientIdsOf(examinations) \cup PatientIdsOf(files))
                     \ {last'.arg} :
              /\ FilterByPatient(examinations', q)
                    = FilterByPatient(examinations, q)
              /\ FilterByPatient(files', q) = FilterByPatient(files, q)
        /\ Len(examinations') = Len(examinations)
              - Len(FilterByPatient(examinations, last'.arg))
        /\ Len(files') = Len(files) - Len(FilterByPatient(files, last'.arg))
      ]_vars

\* seed patient 1, with one examination and two files, has been deleted
\* and the records of patients 2 and 3 are still there
CascadeWitness ==
    /\ last.op = "deletePatient"
    /\ last.ret # <<>>
    /\ last.arg = 1
    /\ examinations = SubSeq(loadSampleExaminations, 2, 3)
    /\ files = SubSeq(loadSampleFiles, 3, 4)

\* C2: addExamination with a patientId that matches no patient fails with
\* an error and leaves the examinations collection, in memory and in
\* storage, as it was.
ReferentialGuard ==
    [][(last'.op = "addExamination"
          /\ getPatientById(patients, last'.arg) = <<>>) =>
        /\ last'.threw
        /\ examinations' = examinations
        /\ storage'.examinations = storage.examinations
      ]_vars

\* C3: every examination and every file has the patientId of a patient
\* that is in the store.
ReferentialIntegrity ==
    /\ \A i \in DOMAIN examinations :
          FindIndex(patients, examinations[i].patientId) # 0
    /\ \A i \in DOMAIN files :
          FindIndex(patients, files[i].patientId) # 0

SelectionClearedOnDelete ==
    [][(last'.op \in {"deletePatient", "deleteSelectedPatient"}
          /\ last'.ret # <<>>
          /\ selectedPatientId # Null
          /\ last'.ret[1].id = selectedPatientId) =>
        selectedPatientId' = Null
      ]_vars

\* C6: selectPatient(id) with no such patient changes nothing, throws
\* nothing and shows a warning; with the patient in the store it sets
\* selectedPatientId to id.
SelectPatientValidates ==
    [][last'.op = "selectPatient" =>
        IF getPatientById(patients, last'.arg) = <<>>
        THEN /\ selectedPatientId' = selectedPatientId
             /\ ~last'.threw
             /\ last'.notice = "warning"
        ELSE selectedPatientId' = last'.arg
      ]_vars

\* C7: while storage writes succeed, after any store operation has
\* returned the three stored arrays equal the in-memory collections,
\* element by element and in the same order.
WriteThrough ==
    last.op \in StoreOps => storage = Stored(patients, examinations, files)

\* the outcomes of a mutating operation with argument arg when every save
\* succeeds
SuccessOutcomes(op, arg) ==
    CASE op = "addPatient" ->
           { addPatient(patients, examinations, files, storage, d, g, n, 0) :
               d \in PatientDataArgs, g \in generateId(adds),
               n \in AddNowArgs }
      [] op = "updatePatient" ->
           { updatePatient(patients, examinations, files, storage, arg, d, 0) :
               d \in UpdateArgs }
      [] op = "deletePatient" ->
           { deletePatient(patients, examinations, files, storage, arg, 0) }
      [] op = "addExamination" ->
           { addExamination(patients, examinations, files, storage,
                            d, g, 0, 0) :
               d \in {x \in ExaminationDataArgs : x.patientId = arg},
               g \in generateId(adds) }
      [] op = "addFile" ->
           { addFile(patients, examinations, files, storage,
                     [id |-> Null, patientId |-> arg], g, 0) :
               g \in generateId(adds) }
      [] op = "deleteFile" ->
           { deleteFile(patients, examinations, files, storage, arg, 0) }

\* C8: when a storage write fails inside a mutating store operation, no
\* exception reaches the caller, and the returned value and the in-memory
\* collections are those of the same call with a working storage.
StorageFailureNonFatal ==
    [][(last'.saveFailed /\ last'.op \in MutatingOps) =>
        /\ ~last'.threw
        /\ \E ok \in SuccessOutcomes(last'.op, last'.arg) :
              /\ last'.ret = ok.ret
              /\ patients' = ok.p
              /\ examinations' = ok.e
              /\ files' = ok.f
      ]_vars

\* addExamination returned the new examination although a save failed:
\* the examination is in memory and not in storage
StorageFailureWitness ==
    /\ last.op = "addExamination"
    /\ last.saveFailed
    /\ ~last.threw
    /\ last.ret # <<>>
    /\ examinations # <<>>
    /\ examinations[Len(examinations)] = last.ret[1]
    /\ storage.examinations # ArrayItem(examinations)

SeedDeterminism ==
    [][last'.op = "loadDataFromStorage" =>
        /\ (storage = EmptyStorage /\ ~last'.saveFailed) =>
              /\ Len(patients') = 3
              /\ Len(examinations') = 3
              /\ Len(files') = 4
              /\ patients' = loadSamplePatients
              /\ examinations' = loadSampleExaminations
              /\ files' = loadSampleFiles
              /\ storage' = Stored(patients', examinations', files')
              /\ last'.ret[1].seeded
                    = {"patients", "examinations", "files"}
        /\ storage = Stored(loadSamplePatients, loadSampleExaminations,
                            loadSampleFiles) =>
              /\ patients' = loadSamplePatients
              /\ examinations' = loadSampleExaminations
              /\ files' = loadSampleFiles
              /\ storage' = storage
              /\ last'.ret[1].seeded = {}
              /\ ~last'.ret[1].caught
      ]_vars

\* the second load: the seed data came back from storage, no seed branch
SeedWitness ==
    /\ last.op = "loadDataFromStorage"
    /\ last.ret[1].seeded = {}
    /\ ~last.ret[1].caught
    /\ patients = loadSamplePatients
    /\ examinations = loadSampleExaminations
    /\ files = loadSampleFiles
    /\ storage = Stored(patients, examinations, files)

\* C11: a page load treats each storage key on its own: a key that holds
\* an array is loaded as stored, and a key that is missing or unparsable
\* has its own collection seeded and the seed written under that key,
\* whatever the other two keys hold.
PerKeyIndependence ==
    [][last'.op = "loadDataFromStorage" =>
        /\ IF storage.patients.tag = "array"
           THEN patients' = storage.patients.val
           ELSE /\ patients' = loadSamplePatients
                /\ storage'.patients = ArrayItem(loadSamplePatients)
        /\ IF storage.examinations.tag = "array"
           THEN examinations' = storage.examinations.val
           ELSE /\ examinations' = loadSampleExaminations
                /\ storage'.examinations = ArrayItem(loadSampleExaminations)
        /\ IF storage.files.tag = "array"
           THEN files' = storage.files.val
           ELSE /\ files' = loadSampleFiles
                /\ storage'.files = ArrayItem(loadSampleFiles)
      ]_vars

\* C12: updatePatient, deletePatient and deleteFile with an id that matches
\* no record return null, throw nothing, and leave the three collections
\* and the storage as they were.
NotFoundIsAValue ==
    [][(\/ /\ last'.op \in {"updatePatient", "deletePatient"}
           /\ FindIndex(patients, last'.arg) = 0
        \/ /\ last'.op = "deleteFile"
           /\ FindIndex(files, last'.arg) = 0) =>
        /\ last'.ret = <<>>
        /\ ~last'.threw
        /\ patients' = patients
        /\ examinations' = examinations
        /\ files' = files
        /\ storage' = storage
      ]_vars

\* deleteFile was called with an id that no file has, on the four seed
\* files, and returned null
NotFoundWitness ==
    /\ last.op = "deleteFile"
    /\ last.arg = NoSuchId
    /\ last.ret = <<>>
    /\ ~last.threw
    /\ files = loadSampleFiles
    /\ storage.files = ArrayItem(loadSampleFiles)

\* C13: updatePatient(id, partialFields) on an existing patient keeps the
\* record's id and dateAdded, gives every field of partialFields its new
\* value, keeps every other field, changes no other patient, and returns
\* the merged record.
ShallowMergePreservesIdentity ==
    [][(last'.op = "updatePatient" /\ FindIndex(patients, last'.arg) # 0) =>
        LET i == FindIndex(patients, last'.arg)
        IN  /\ Len(patients') = Len(patients)
            /\ patients'[i].id = patients[i].id
            /\ patients'[i].dateAdded = patients[i].dateAdded
            /\ \E data \in UpdateArgs :
                  \A k \in DOMAIN patients[i] :
                     IF \E kv \in data : kv[1] = k
                     THEN \E kv \in data :
                             kv[1] = k /\ patients'[i][k] = kv[2]
                     ELSE patients'[i][k] = patients[i][k]
            /\ \A j \in DOMAIN patients :
                  j # i => patients'[j] = patients[j]
            /\ last'.ret = << patients'[i] >>
      ]_vars

\* C14: no two patients share an id, no two examinations share an id and
\* no two files share an id.
IdUniqueness ==
    /\ \A i, j \in DOMAIN patients : i # j => patients[i].id # patients[j].id
    /\ \A i, j \in DOMAIN examinations :
          i # j => examinations[i].id # examinations[j].id
    /\ \A i, j \in DOMAIN files : i # j => files[i].id # files[j].id

\* C15: whatever a caller does, in place, to a value that a read
\* returned (the array or a record in it), the three collections of the
\* store stay as they were.
ReadsReturnCopies ==
    [][last'.op = "mutateReturned" =>
        /\ patients' = patients
        /\ examinations' = examinations
        /\ files' = files
      ]_vars

QueryOps == {"searchPatients", "getStatistics", "getRecentActivity",
             "calculateTrends", "getTopDiagnoses"}

\* C16: searchPatients, getStatistics, getRecentActivity, calculateTrends
\* and getTopDiagnoses leave the three collections as they were, the order
\* of their elements included.
QueriesArePure ==
    [][last'.op \in QueryOps =>
        /\ patients' = patients
        /\ examinations' = examinations
        /\ files' = files
      ]_vars

\* the filter that searchPatients is to equal: all patients for a blank
\* query, otherwise those with the lowercased query in the lowercased
\* firstName, lastName, email (when there is one) or "firstName lastName",
\* or in the phoneNumber
ReferenceSearch(p, query) ==
    LET q == toLowerCase(query)
        keep(pt) ==
            \/ Includes(toLowerCase(pt.firstName), q)
            \/ Includes(toLowerCase(pt.lastName), q)
            \/ \E i \in DOMAIN pt.email : Includes(toLowerCase(pt.email[i]), q)
            \/ Includes(toLowerCase(pt.firstName \o " " \o pt.lastName), q)
            \/ Includes(pt.phoneNumber, q)
    IN  IF trim(query) = "" THEN p ELSE SelectSeq(p, keep)

\* C17: searchPatients(query) throws nothing and returns, in insertion
\* order, what the reference filter gives for the patients and the query,
\* also when a patient has no email.
SearchEqualsReference ==
    [][last'.op = "searchPatients" =>
        /\ ~last'.threw
        /\ last'.ret = << ReferenceSearch(patients, last'.arg) >>
      ]_vars

\* C18: getRecentActivity(limit) throws nothing and returns
\* min(limit, number of examinations) entries in non-increasing date
\* order, which are the examinations with the latest dates, each with the
\* name of its patient or 'Unknown Patient' when no patient has its
\* patientId.
RecentActivityCorrect ==
    [][last'.op = "getRecentActivity" =>
        /\ ~last'.threw
        /\ LET acts == last'.ret[1]
               n == Len(acts)
               inActs(d) == Cardinality({k \in 1..n : acts[k].date = d})
               inExams(d) == Cardinality({i \in DOMAIN examinations :
                                            examinations[i].date = d})
           IN  /\ n <= last'.arg
               /\ n = IF last'.arg < Len(examinations) THEN last'.arg
                      ELSE Len(examinations)
               /\ \A k \in 1..(n - 1) : acts[k].date >= acts[k + 1].date
               /\ \A k \in 1..n :
                     /\ inActs(acts[k].date) <= inExams(acts[k].date)
                     /\ \E i \in DOMAIN examinations :
                           /\ examinations[i].id = acts[k].id
                           /\ examinations[i].patientId = acts[k].patientId
                           /\ examinations[i].date = acts[k].date
                     /\ IF FindIndex(patients, acts[k].patientId) = 0
                        THEN acts[k].patientName = "Unknown Patient"
                        ELSE \E j \in DOMAIN patients :
                                /\ patients[j].id = acts[k].patientId
                                /\ acts[k].patientName =
                                      patients[j].firstName \o " "
                                         \o patients[j].lastName
               /\ \A i \in DOMAIN examinations :
                     (n > 0 /\ examinations[i].date > acts[n].date) =>
                        inActs(examinations[i].date)
                           = inExams(examinations[i].date)
      ]_vars

\* getRecentActivity(2) on four examinations returned the two latest, the
\* first of which has a patientId that no patient has
RecentActivityWitness ==
    /\ last.op = "getRecentActivity"
    /\ last.arg = 2
    /\ Len(examinations) = 4
    /\ Len(last.ret[1]) = 2
    /\ last.ret[1][1].patientName = "Unknown Patient"
    /\ last.ret[1][1].date = 4
    /\ last.ret[1][2].patientName = "John Doe"

\* two points in time are on the same calendar day of the zone with the
\* given offset: both lie in the same day d, which begins 2 * d - offset
\* units after the UTC origin and lasts two units
SameLocalDay(t1, t2, offset) ==
    \E d \in -2..4 :
        \A t \in {t1, t2} : 2 * d - offset <= t /\ t < 2 * d - offset + 2

\* the statistics of the current collections
StatisticsNow(now, offset) ==
    getStatistics(patients, examinations, files, storage, now, offset).ret[1]

\* C19: getStatistics returns the number of patients, of files, of
\* patients with status 'active' and of examinations dated on the local
\* calendar day of the call; deletePatient lowers these counts by the
\* patient and by its examinations and files.
StatisticsCorrect ==
    [][/\ last'.op = "getStatistics" =>
            LET st == last'.ret[1]
            IN  /\ st.totalPatients = Len(patients)
                /\ st.totalFiles = Len(files)
                /\ st.activePatients =
                      Cardinality({i \in DOMAIN patients :
                                     patients[i].status = "active"})
                /\ st.activePatients <= st.totalPatients
                /\ st.todayExaminations =
                      Cardinality({i \in DOMAIN examinations :
                         SameLocalDay(examinations[i].date, last'.arg.now,
                                      last'.arg.offset)})
       /\ (last'.op = "deletePatient" /\ last'.ret # <<>>) =>
            \A now \in NowArgs, offset \in Offsets :
               LET before == StatisticsNow(now, offset)
                   after == StatisticsNow(now, offset)'
                   gone == last'.ret[1]
               IN  /\ after.totalPatients = before.totalPatients - 1
                   /\ after.activePatients = before.activePatients
                         - (IF gone.status = "active" THEN 1 ELSE 0)
                   /\ after.totalFiles = before.totalFiles
                         - Len(FilterByPatient(files, gone.id))
                   /\ after.todayExaminations = before.todayExaminations
                         - Cardinality({i \in DOMAIN examinations :
                              /\ examinations[i].patientId = gone.id
                              /\ SameLocalDay(examinations[i].date, now,
                                              offset)})
      ]_vars

\* three patients, one of them inactive, and three examinations of which
\* exactly one is dated on the local day of the call, which is not the
\* UTC day of the call
StatisticsWitness ==
    /\ last.op = "getStatistics"
    /\ last.arg.now = 4
    /\ last.arg.offset = -1
    /\ Len(examinations) = 3
    /\ last.ret[1].totalPatients = 3
    /\ last.ret[1].activePatients = 2
    /\ last.ret[1].todayExaminations = 1

\* C20: getTopDiagnoses returns at most 5 groups, one per trimmed and
\* lowercased non-empty diagnosis, in non-increasing count order, each
\* with its count and with percentage = round(100 * count / N), where N is
\* the number of examinations that have a non-empty diagnosis.
TopDiagnosesCorrect ==
    [][last'.op = "getTopDiagnoses" =>
        LET top == last'.ret[1]
            withDiagnosis == {i \in DOMAIN examinations :
                                HasDiagnosis(examinations[i])}
            N == Cardinality(withDiagnosis)
            keys == {DiagnosisKey(examinations[i]) : i \in withDiagnosis}
            countOf(key) == Cardinality({i \in withDiagnosis :
                               DiagnosisKey(examinations[i]) = key})
        IN  /\ Len(top) <= 5
            /\ Len(top) = IF Cardinality(keys) < 5 THEN Cardinality(keys)
                          ELSE 5
            /\ \A k \in 1..(Len(top) - 1) : top[k].count >= top[k + 1].count
            /\ \A k, m \in DOMAIN top :
                  k # m => toLowerCase(top[k].diagnosis)
                              # toLowerCase(top[m].diagnosis)
            /\ \A k \in DOMAIN top :
                  /\ toLowerCase(top[k].diagnosis) \in keys
                  /\ top[k].count = countOf(toLowerCase(top[k].diagnosis))
                  /\ 2 * N * top[k].percentage <= 200 * top[k].count + N
                  /\ 200 * top[k].count + N < 2 * N * (top[k].percentage + 1)
      ]_vars

\* C26: a page load does not destroy valid stored data: a key that held an
\* array before loadDataFromStorage holds the same array after it, also
\* when another key was missing and was seeded during the same load; and
\* after the load the stored arrays equal the in-memory collections.
LoadKeepsStoredData ==
    [][last'.op = "loadDataFromStorage" =>
        /\ \A k \in StorageKeys :
              storage[k].tag = "array" => storage'[k] = storage[k]
        /\ storage' = Stored(patients', examinations', files')
      ]_vars

\* C25: in every state reachable by any interleaving of selectPatient,
\* deleteSelectedPatient, DataManager.deletePatient, clearAllData and the
\* other operations on patients, selectedPatientId is null or the id of a
\* patient that is in the store.
SelectionValid ==
    selectedPatientId = Null \/ FindIndex(patients, selectedPatientId) # 0

\* C27: the continuation of deleteSelectedPatient deletes the patient its
\* confirmation asked about, and no other patient, whatever ran while the
\* confirmation was pending; when the user declines, the store and the
\* selection stay as they were.
DeletesThePatientAskedAbout ==
    [][(last'.op = "deleteSelectedPatient" /\ pendingConfirm.active) =>
        IF pendingConfirm.confirmed
        THEN /\ FindIndex(patients', pendingConfirm.asked) = 0
             /\ \A i \in DOMAIN patients :
                   patients[i].id # pendingConfirm.asked =>
                       FindIndex(patients', patients[i].id) # 0
        ELSE UNCHANGED << patients, examinations, files, storage,
                          selectedPatientId >>
      ]_vars

\* ------------------------------------------------- the examination form
\* the decimal digits, and the number a string of digits converts to when
\* it is compared with a number
DigitChars == << "0", "1", "2", "3", "4", "5", "6", "7", "8", "9" >>

IsDigit(c) == \E d \in DOMAIN DigitChars : DigitChars[d] = c

IsNumeral(s) ==
    s # "" /\ \A i \in 1..Len(s) : IsDigit(SubSeq(s, i, i))

RECURSIVE ToNumber(_)
ToNumber(s) ==
    IF s = "" THEN 0
    ELSE 10 * ToNumber(SubSeq(s, 1, Len(s) - 1))
         + (CHOOSE d \in DOMAIN DigitChars :
                DigitChars[d] = SubSeq(s, Len(s), Len(s))) - 1

\* data.x && (data.x < min || data.x > max) for a string x: the empty
\* string is falsy, and a string that is no number converts to NaN, for
\* which both comparisons are false
OutsideRange(x, min, max) ==
    /\ x # ""
    /\ IsNumeral(x)
    /\ (ToNumber(x) < min \/ ToNumber(x) > max)

\* /^\d{2,3}\/\d{2,3}$/.test(s)
BloodPressureFormat(s) ==
    \E k \in 1..Len(s) :
        /\ SubSeq(s, k, k) = "/"
        /\ k - 1 \in 2..3
        /\ Len(s) - k \in 2..3
        /\ \A i \in (1..Len(s)) \ {k} : IsDigit(SubSeq(s, i, i))

\* Utils.isEmpty of a string
isEmpty(value) == trim(value) = ""

\* APP_CONFIG.examinationTypes[type].requiredFields; no entry, no fields
requiredFields(type) ==
    CASE type = "routine" -> {"bloodPressure", "heartRate", "temperature"}
      [] type = "follow-up" -> {"chiefComplaint"}
      [] type = "consultation" -> {"chiefComplaint", "diagnosis"}
      [] type = "emergency" ->
            {"chiefComplaint", "physicalFindings", "diagnosis"}
      [] OTHER -> {}

\* validateExaminationData without the type's required fields
validateExaminationDataNoRequired(data) ==
    LET errors ==
            (IF data.date = <<>> THEN {"examDate"} ELSE {})
            \cup (IF isEmpty(data.type) THEN {"examType"} ELSE {})
            \cup (IF OutsideRange(data.heartRate, 30, 200)
                  THEN {"heartRate"} ELSE {})
            \cup (IF OutsideRange(data.temperature, 90, 110)
                  THEN {"temperature"} ELSE {})
            \cup (IF OutsideRange(data.weight, 50, 500)
                  THEN {"weight"} ELSE {})
            \cup (IF data.bloodPressure # ""
                     /\ ~BloodPressureFormat(data.bloodPressure)
                  THEN {"bloodPressure"} ELSE {})
    IN  [isValid |-> errors = {}, errors |-> errors]

\* validateExaminationData: the keys of its errors object (the empty date
\* input is <<>>), and isValid, which is false exactly when a key was set
validateExaminationData(data) ==
    LET errors ==
            (IF data.date = <<>> THEN {"examDate"} ELSE {})
            \cup (IF isEmpty(data.type) THEN {"examType"} ELSE {})
            \cup (IF OutsideRange(data.heartRate, 30, 200)
                  THEN {"heartRate"} ELSE {})
            \cup (IF OutsideRange(data.temperature, 90, 110)
                  THEN {"temperature"} ELSE {})
            \cup (IF OutsideRange(data.weight, 50, 500)
                  THEN {"weight"} ELSE {})
            \cup (IF data.bloodPressure # ""
                     /\ ~BloodPressureFormat(data.bloodPressure)
                  THEN {"bloodPressure"} ELSE {})
            \cup {field \in requiredFields(data.type) :
                    isEmpty(data[field])}
    IN  [isValid |-> errors = {}, errors |-> errors]

\* what collectFormData can read from the form: a routine checkup that
\* passes, and forms that differ from it in one or two inputs
ValidForm ==
    [date |-> << 4 >>, type |-> "routine", bloodPressure |-> "120/80",
     heartRate |-> "72", temperature |-> "98", weight |-> "",
     chiefComplaint |-> "", physicalFindings |-> "", diagnosis |-> ""]

FormDataArgs ==
    { ValidForm,
      [ValidForm EXCEPT !.heartRate = "30", !.weight = "500"],
      [ValidForm EXCEPT !.type = "follow-up", !.chiefComplaint = "cough",
                        !.bloodPressure = "", !.heartRate = ""],
      [ValidForm EXCEPT !.date = <<>>],
      [ValidForm EXCEPT !.type = ""],
      [ValidForm EXCEPT !.heartRate = "29"],
      [ValidForm EXCEPT !.heartRate = "250"],
      [ValidForm EXCEPT !.temperature = "111"],
      [ValidForm EXCEPT !.weight = "49"],
      [ValidForm EXCEPT !.bloodPressure = "1200/80"],
      [ValidForm EXCEPT !.bloodPressure = "12080"],
      [ValidForm EXCEPT !.temperature = ""],
      [ValidForm EXCEPT !.type = "consultation",
                        !.chiefComplaint = "cough"],
      [ValidForm EXCEPT !.type = "emergency", !.chiefComplaint = "fall",
                        !.diagnosis = "sprain", !.physicalFindings = " "],
      [ValidForm EXCEPT !.date = <<>>, !.weight = "501"] }

\* PatientManager.getSelectedPatient
getSelectedPatient ==
    IF selectedPatientId # Null
    THEN getPatientById(patients, selectedPatientId) ELSE <<>>

\* ExaminationManager.addExamination, the submit handler of the form: no
\* selected patient, a form that fails validation, or the store's
\* addExamination inside try/catch
SubmitExamination ==
    \E formData \in FormDataArgs :
        LET selectedPatient == getSelectedPatient
            validation == validateExaminationData(formData)
        IN  /\ loaded
            /\ UNCHANGED << loaded, selectedPatientId, pendingConfirm, app,
                            auth, clock >>
            /\ \/ /\ selectedPatient = <<>>
                  /\ last' = Call("submitExamination", formData, <<>>,
                                  FALSE, FALSE, "warning")
                  /\ UNCHANGED << patients, examinations, files, storage,
                                  faults, adds, views >>
               \/ /\ selectedPatient # <<>>
                  /\ ~validation.isValid
                  /\ last' = Call("submitExamination", formData,
                                  << [errors |-> validation.errors] >>,
                                  FALSE, FALSE, "error")
                  /\ UNCHANGED << patients, examinations, files, storage,
                                  faults, adds, views >>
               \/ /\ selectedPatient # <<>>
                  /\ validation.isValid
                  /\ adds < MaxAdds
                  /\ adds' = adds + 1
                  /\ \E genId \in generateId(adds),
                        failUpd \in FailPoints, failAt \in FailPoints :
                        LET r == addExamination(patients, examinations,
                                    files, storage,
                                    [id |-> Null,
                                     patientId |-> selectedPatient[1].id,
                                     date |-> formData.date[1],
                                     diagnosis |-> formData.diagnosis],
                                    genId, failUpd, failAt)
                            d == updateRecentActivity(r.p, r.e, r.f, r.st,
                                     updateStats(r.p, r.f, views.dashboard))
                        IN  /\ Commit(IF r.ret # <<>>
                                      THEN [r EXCEPT !.e = d.e] ELSE r,
                                      Call("submitExamination", formData,
                                           r.ret, FALSE, r.fails > 0,
                                           IF r.ret # <<>> THEN "success"
                                           ELSE "error"))
                            /\ views' =
                                  IF r.ret # <<>>
                                  THEN [views EXCEPT
                                          !.examinationTab.history =
                                              loadExaminationHistory(r.e,
                                                  selectedPatient[1].id),
                                          !.dashboard = d.shown]
                                  ELSE views

\* the examination form, the selection it depends on, and a store call
\* that removes the selected patient
NextExaminationForm ==
    \/ Load
    \/ SelectPatient
    \/ SubmitExamination
    \/ DeletePatient

SpecExaminationForm == Init /\ [][NextExaminationForm]_vars

\* the inputs of a form that break a rule, by the name of their element
RuleBreakingFields(data) ==
    { field \in {"examDate", "examType", "heartRate", "temperature",
                 "weight", "bloodPressure", "chiefComplaint",
                 "physicalFindings", "diagnosis"} :
        CASE field = "examDate" -> data.date = <<>>
          [] field = "examType" -> trim(data.type) = ""
          [] field = "heartRate" ->
                \/ (data.heartRate # "" /\ ToNumber(data.heartRate) < 30)
                \/ (data.heartRate # "" /\ ToNumber(data.heartRate) > 200)
                \/ (data.type = "routine" /\ data.heartRate = "")
          [] field = "temperature" ->
                \/ (data.temperature # ""
                      /\ ToNumber(data.temperature) \notin 90..110)
                \/ (data.type = "routine" /\ data.temperature = "")
          [] field = "weight" ->
                data.weight # "" /\ ToNumber(data.weight) \notin 50..500
          [] field = "bloodPressure" ->
                \/ (data.bloodPressure # ""
                      /\ ~BloodPressureFormat(data.bloodPressure))
                \/ (data.type = "routine" /\ data.bloodPressure = "")
          [] field = "chiefComplaint" ->
                /\ data.type \in {"follow-up", "consultation", "emergency"}
                /\ trim(data.chiefComplaint) = ""
          [] field = "physicalFindings" ->
                data.type = "emergency" /\ trim(data.physicalFindings) = ""
          [] field = "diagnosis" ->
                /\ data.type \in {"consultation", "emergency"}
                /\ trim(data.diagnosis) = "" }

\* C21: a submitted examination that breaks a rule (no date or type, a
\* vital sign outside its range, a malformed blood pressure, an empty
\* field among those its type requires) is rejected with an error map that
\* has an entry for each input that breaks a rule, and neither the
\* examinations nor any patient record changes.
ValidationAllOrNothing ==
    [][(last'.op = "submitExamination"
          /\ RuleBreakingFields(last'.arg) # {}) =>
        /\ last'.notice = "error"
        /\ last'.ret = << [errors |-> RuleBreakingFields(last'.arg)] >>
        /\ examinations' = examinations
        /\ patients' = patients
      ]_vars

\* C21, amended: the same when a patient is selected; with no patient
\* selected, or a selected id whose patient is gone, the submission is
\* rejected with a warning and without an error map, and nothing changes.
ValidationAllOrNothingWhenSelected ==
    [][(last'.op = "submitExamination"
          /\ RuleBreakingFields(last'.arg) # {}) =>
        /\ IF getSelectedPatient # <<>>
           THEN /\ last'.notice = "error"
                /\ last'.ret
                      = << [errors |-> RuleBreakingFields(last'.arg)] >>
           ELSE /\ last'.notice = "warning"
                /\ last'.ret = <<>>
        /\ examinations' = examinations
        /\ patients' = patients
        /\ storage' = storage
      ]_vars

\* with a patient selected, a consultation without a diagnosis has been
\* rejected with an error for that field, after an examination from a
\* valid form was added
ValidationWitness ==
    /\ last.op = "submitExamination"
    /\ getSelectedPatient # <<>>
    /\ last.arg.type = "consultation"
    /\ last.ret = << [errors |-> {"diagnosis"}] >>
    /\ Len(examinations) = Len(loadSampleExaminations) + 1

\* C24: when selectPatient(id) has returned for a patient of the store,
\* the id is the selection and the patient list, the examination tab and
\* the files tab all show that patient: the three refreshes are done inside
\* the call, so no state has the new selection and a panel of the old one.
SelectionFanOut ==
    [][(last'.op = "selectPatient"
            /\ FindIndex(patients, last'.arg) # 0) =>
        /\ selectedPatientId' = last'.arg
        /\ views'.patientsList = renderPatients(patients', last'.arg)
        /\ views'.examinationTab =
               examinationTabFor(patients', examinations', last'.arg)
        /\ views'.examinationTab.patient[1].id = last'.arg
        /\ views'.filesTab.patient # <<>>
        /\ views'.filesTab.patient[1].id = last'.arg
        /\ views'.filesTab.management
        /\ views'.filesTab.list = loadPatientFiles(files', last'.arg)
      ]_vars

\* patient 2 has been selected while the panels showed patient 1
SelectionFanOutWitness ==
    /\ last.op = "selectPatient"
    /\ last.arg = 2
    /\ selectedPatientId = 2
    /\ views.filesTab.info = "selected patient"
    /\ views.patientsList[2].isSelected
    /\ views.examinationTab.history # <<>>

\* ============================================================ App, session
\* bounds of the clock and of the logins that wait at their await
MaxClock == 3
MaxPending == 2

\* the four tabs of the page
TabArgs == {"dashboard", "patients", "examinations", "files"}

\* storeAuthData: a session lasts 24 hours (in units of five minutes)
SessionLength == 24 * 12

\* AuthManager.lockoutDuration (15 minutes) and maxLoginAttempts
lockoutDuration == 3
maxLoginAttempts == 5

\* the expiry of the session that an earlier login stored
EarlierExpiresAt == 2

\* AuthManager.isSessionValid(authData)
isSessionValid(session, now) ==
    session # <<>> /\ now < session[1].expiresAt

\* AuthManager.isUserAuthenticated: the field, whatever the time is
isUserAuthenticated(a) == a.isAuthenticated

\* AuthManager.logout: the fields and the stored session are cleared
logout(a) ==
    [a EXCEPT !.isAuthenticated = FALSE, !.currentUser = Null,
              !.session = <<>>]

\* AuthManager.checkAuthState on the given page: a valid stored session
\* signs the user in (and the login page redirects to the dashboard), a
\* stored session that is no longer valid is logged out
checkAuthState(a, now, page) ==
    IF a.session = <<>>
    THEN [auth |-> a, redirect |-> "none"]
    ELSE IF isSessionValid(a.session, now)
    THEN [auth |-> [a EXCEPT !.isAuthenticated = TRUE,
                             !.currentUser = a.session[1].user],
          redirect |-> IF page = "login" THEN "dashboard" ELSE "none"]
    ELSE [auth |-> logout(a), redirect |-> "login"]

\* AuthManager.isLockedOut
isLockedOut(a, now) ==
    a.lockout # <<>> /\ now < a.lockout[1].expiresAt

\* AuthManager.lockAccount
lockAccount(a, now) ==
    [a EXCEPT !.lockout = << [expiresAt |-> now + lockoutDuration] >>]

\* Utils.isValidEmail: /^[^\s@]+@[^\s@]+\.[^\s@]+$/
isValidEmail(email) ==
    \E a \in 1..Len(email), d \in 1..Len(email) :
        /\ SubSeq(email, a, a) = "@"
        /\ SubSeq(email, d, d) = "."
        /\ 1 < a /\ a + 1 < d /\ d < Len(email)
        /\ \A i \in 1..Len(email) :
              /\ SubSeq(email, i, i) # " "
              /\ SubSeq(email, i, i) = "@" => i = a

\* AuthManager.validateLoginInputs
validateLoginInputs(email, password) ==
    email # "" /\ isValidEmail(email) /\ password # ""

\* AuthManager.demoCredentials
demoCredentials ==
    [email |-> "demo@physician.com", password |-> "demo123",
     userData |-> DemoUser]

\* AuthManager.authenticateUser: the demo account, or a registered user
\* (none is registered)
authenticateUser(email, password) ==
    IF email = demoCredentials.email /\ password = demoCredentials.password
    THEN [success |-> TRUE, user |-> demoCredentials.userData]
    ELSE [success |-> FALSE, user |-> Null]

\* what is typed into the login form
CredentialArgs ==
    { [email |-> " Demo@Physician.com", password |-> "demo123"],
      [email |-> "demo@physician.com", password |-> "demo124"],
      [email |-> "demo@physician", password |-> "demo123"] }

\* App.saveApplicationState: the item is replaced unless setItem throws
\* (version is a constant of the program and timestamp is never read)
saveApplicationState(currentTab, selected, currentUser, old, fail) ==
    IF fail THEN old
    ELSE << [currentTab |-> currentTab, selectedPatientId |-> selected,
             userId |-> currentUser] >>

\* App.restoreApplicationState: the timers it starts for a state saved by
\* the same user
restoreApplicationState(saved, currentUser) ==
    IF saved = <<>> \/ saved[1].userId # currentUser
    THEN NoTimers
    ELSE [switchTab |-> IF saved[1].currentTab # "dashboard"
                        THEN << saved[1].currentTab >> ELSE <<>>,
          selectPatient |-> IF saved[1].selectedPatientId # Null
                            THEN << saved[1].selectedPatientId >>
                            ELSE <<>>]

\* the dashboard refresh: updateStats, then updateRecentActivity
refreshDashboard(p, e, f, st, shown) ==
    LET d == updateRecentActivity(p, e, f, st,
                                  updateStats(p, f, shown.dashboard))
    IN  [e |-> d.e, shown |-> [shown EXCEPT !.dashboard = d.shown]]

\* App.handleTabSwitch: the dashboard is refreshed; the examination and
\* the files tab are refreshed when a patient is selected; nothing else
handleTabSwitch(tabName, p, e, f, st, selected, shown) ==
    CASE tabName = "dashboard" -> refreshDashboard(p, e, f, st, shown)
      [] tabName = "examinations" /\ selected # Null ->
            [e |-> e,
             shown |-> [shown EXCEPT !.examinationTab =
                            examinationTabFor(p, e, selected)]]
      [] tabName = "files" /\ selected # Null ->
            [e |-> e,
             shown |-> [shown EXCEPT !.filesTab =
                            filesTabFor(p, f, selected, @)]]
      [] OTHER -> [e |-> e, shown |-> shown]

\* TabDebugger.handleTabSpecificUpdates: every tab is refreshed, with
\* whatever the selection is
handleTabSpecificUpdates(tabName, p, e, f, st, selected, shown) ==
    CASE tabName = "dashboard" -> refreshDashboard(p, e, f, st, shown)
      [] tabName = "patients" ->
            [e |-> e,
             shown |-> [shown EXCEPT !.patientsList =
                            renderPatients(p, selected)]]
      [] tabName = "examinations" ->
            [e |-> e,
             shown |-> [shown EXCEPT !.examinationTab =
                            examinationTabFor(p, e, selected)]]
      [] tabName = "files" ->
            [e |-> e,
             shown |-> [shown EXCEPT !.filesTab =
                            filesTabFor(p, f, selected, @)]]
      [] OTHER -> [e |-> e, shown |-> shown]

\* a signed-in user's dashboard page before DOMContentLoaded: the session
\* of an earlier login is in localStorage
InitSignedIn ==
    StartPage(EmptyStorage, 0, "app",
              << [user |-> DemoUser, expiresAt |-> EarlierExpiresAt] >>)

\* the same with a storage that will fail a save
InitSignedInFaulty ==
    StartPage(EmptyStorage, MaxWriteFailures, "app",
              << [user |-> DemoUser, expiresAt |-> EarlierExpiresAt] >>)

\* the login page before DOMContentLoaded, nobody signed in
InitLogin == StartPage(EmptyStorage, 0, "login", <<>>)

\* the dashboard page is loaded (or reloaded): the page that is left saves
\* its state on beforeunload; every module starts afresh and the
\* DOMContentLoaded listeners run: DataManager.init, PatientManager.init,
\* DashboardManager.init, AuthManager.init and App.init, which redirects
\* a user who is not signed in and otherwise starts the session timers,
\* switches to the dashboard tab (saving the state) and restores
PageLoad ==
    \E f1, f2, f3 \in FailPoints, failUnload, failInit \in BOOLEAN :
        LET unloaded == IF loaded
                        THEN saveApplicationState(app.currentTab,
                                 selectedPatientId, auth.currentUser,
                                 app.saved, failUnload)
                        ELSE app.saved
            r == loadDataFromStorage(<<>>, <<>>, <<>>, storage, f1, f2, f3)
            a == checkAuthState(FreshAuth(auth.session, auth.lockout),
                                clock, "app").auth
            d == refreshDashboard(r.p, r.e, r.f, r.st,
                     [InitialViews EXCEPT
                         !.patientsList = renderPatients(r.p, Null)])
            saved == IF isUserAuthenticated(a)
                     THEN saveApplicationState("dashboard", Null,
                              a.currentUser, unloaded, failInit)
                     ELSE unloaded
            fails == r.fails + (IF failUnload THEN 1 ELSE 0)
                             + (IF failInit THEN 1 ELSE 0)
        IN  /\ app.page \in {"app", "login"}
            /\ f1 # 0 => storage.patients.tag = "missing"
            /\ f2 # 0 => storage.examinations.tag = "missing"
            /\ f3 # 0 => storage.files.tag = "missing"
            /\ failUnload => loaded
            /\ failInit => isUserAuthenticated(a)
            /\ Commit([r EXCEPT !.e = d.e, !.fails = fails],
                      Call("pageLoad", Null, r.ret, r.threw, fails > 0,
                           IF r.fails > 0 THEN "warning" ELSE "none"))
            /\ loaded' = TRUE
            /\ selectedPatientId' = Null
            /\ pendingConfirm' = NoPending
            /\ views' = d.shown
            /\ auth' = a
            /\ app' = IF isUserAuthenticated(a)
                      THEN [page |-> "app", isInitialized |-> TRUE,
                            currentTab |-> "dashboard", saved |-> saved,
                            timers |-> restoreApplicationState(saved,
                                           a.currentUser),
                            sessionTimers |-> TRUE]
                      ELSE FreshApp("leaving", saved)
            /\ UNCHANGED << adds, clock >>

\* App.switchTab(tabName), called by op in a page whose App is app0
switchTab(op, tabName, app0) ==
    /\ IF ~isUserAuthenticated(auth)
       THEN /\ app' = [app0 EXCEPT !.page = "leaving"]
            /\ last' = Call(op, tabName, <<>>, FALSE, FALSE, "none")
            /\ UNCHANGED << examinations, views, faults >>
       ELSE \E fail \in BOOLEAN :
              LET h == handleTabSwitch(tabName, patients, examinations,
                           files, storage, selectedPatientId, views)
              IN  /\ fail => faults > 0
                  /\ examinations' = h.e
                  /\ views' = h.shown
                  /\ app' = [app0 EXCEPT
                               !.currentTab = tabName,
                               !.saved = saveApplicationState(tabName,
                                             selectedPatientId,
                                             auth.currentUser, @, fail)]
                  /\ faults' = faults - (IF fail THEN 1 ELSE 0)
                  /\ last' = Call(op, tabName, <<>>, FALSE, fail, "none")
    /\ UNCHANGED << patients, files, storage, loaded, selectedPatientId,
                    pendingConfirm, adds, auth, clock >>

\* a click on a tab button: window.switchTab
SwitchTab ==
    \E tabName \in TabArgs :
        /\ loaded
        /\ switchTab("switchTab", tabName, app)

\* window.manualSwitchTab(tabName): TabDebugger.manualSwitchTab
ManualSwitchTab ==
    \E tabName \in TabArgs, fail \in BOOLEAN :
        LET h == handleTabSpecificUpdates(tabName, patients, examinations,
                     files, storage, selectedPatientId, views)
        IN  /\ loaded
            /\ fail => faults > 0
            /\ examinations' = h.e
            /\ views' = h.shown
            /\ app' = [app EXCEPT
                         !.currentTab = tabName,
                         !.saved = saveApplicationState(tabName,
                                       selectedPatientId,
                                       auth.currentUser, @, fail)]
            /\ faults' = faults - (IF fail THEN 1 ELSE 0)
            /\ last' = Call("manualSwitchTab", tabName, << TRUE >>, FALSE,
                            fail, "none")
            /\ UNCHANGED << patients, files, storage, loaded,
                            selectedPatientId, pendingConfirm, adds, auth,
                            clock >>

\* the timer of restoreApplicationState that restores the tab
RestoreTab ==
    /\ loaded
    /\ app.timers.switchTab # <<>>
    /\ switchTab("restoreTab", app.timers.switchTab[1],
                 [app EXCEPT !.timers.switchTab = <<>>])

\* the timer of restoreApplicationState that restores the selection
RestorePatient ==
    /\ loaded
    /\ app.timers.selectPatient # <<>>
    /\ selectPatient("restorePatient", app.timers.selectPatient[1])
    /\ app' = [app EXCEPT !.timers.selectPatient = <<>>]

\* App.handleLogout: after the confirmation, the state is saved and
\* AuthManager.logout(true) signs out and starts the redirect
HandleLogout ==
    \E confirmed, fail \in BOOLEAN :
        /\ loaded
        /\ app.isInitialized
        /\ fail => (confirmed /\ faults > 0)
        /\ IF confirmed
           THEN /\ app' = [app EXCEPT
                            !.page = "leaving",
                            !.saved = saveApplicationState(app.currentTab,
                                          selectedPatientId,
                                          auth.currentUser, @, fail)]
                /\ auth' = logout(auth)
           ELSE UNCHANGED << app, auth >>
        /\ faults' = faults - (IF fail THEN 1 ELSE 0)
        /\ last' = Call("handleLogout", confirmed, <<>>, FALSE, fail,
                        IF confirmed THEN "info" ELSE "none")
        /\ UNCHANGED << patients, examinations, files, storage, loaded,
                        selectedPatientId, pendingConfirm, adds, views,
                        clock >>

\* the login page is loaded (after a redirect, or reloaded): the dashboard
\* page that is left saves its state on beforeunload; AuthManager.init
\* runs in the new page
GoToLogin ==
    \E fail \in BOOLEAN :
        LET unloaded == IF loaded
                        THEN saveApplicationState(app.currentTab,
                                 selectedPatientId, auth.currentUser,
                                 app.saved, fail)
                        ELSE app.saved
            checked == checkAuthState(FreshAuth(auth.session, auth.lockout),
                                      clock, "login")
        IN  /\ app.page \in {"leaving", "login"}
            /\ fail => (loaded /\ faults > 0)
            /\ patients' = <<>>
            /\ examinations' = <<>>
            /\ files' = <<>>
            /\ loaded' = FALSE
            /\ selectedPatientId' = Null
            /\ pendingConfirm' = NoPending
            /\ views' = InitialViews
            /\ app' = FreshApp("login", unloaded)
            /\ auth' = checked.auth
            /\ faults' = faults - (IF fail THEN 1 ELSE 0)
            /\ last' = Call("loginPageLoad", Null, <<>>, FALSE, fail,
                            IF isLockedOut(checked.auth, clock)
                            THEN "warning" ELSE "none")
            /\ UNCHANGED << storage, adds, clock >>

\* AuthManager.handleLogin up to its await: refused while locked out or
\* with invalid inputs, otherwise the call waits one second. The login
\* button is disabled meanwhile, so that a second call that waits at the
\* same time comes from a submit that does not use the button or from a
\* second tab of the login page, which shares the lock record
HandleLogin ==
    \E typed \in CredentialArgs :
        LET email == trim(toLowerCase(typed.email))
            password == typed.password
        IN  /\ app.page = "login"
            /\ Len(auth.pending) < MaxPending
            /\ IF isLockedOut(auth, clock)
               THEN /\ last' = Call("handleLogin", typed, <<>>, FALSE,
                                    FALSE, "error")
                    /\ UNCHANGED auth
               ELSE IF ~validateLoginInputs(email, password)
               THEN /\ last' = Call("handleLogin", typed, <<>>, FALSE,
                                    FALSE, "field error")
                    /\ UNCHANGED auth
               ELSE /\ last' = Call("handleLogin", typed, <<>>, FALSE,
                                    FALSE, "none")
                    /\ auth' = [auth EXCEPT !.pending =
                                   Append(@, [email |-> email,
                                              password |-> password])]
            /\ UNCHANGED << patients, examinations, files, storage, loaded,
                            selectedPatientId, pendingConfirm, faults, adds,
                            views, app, clock >>

\* AuthManager.handleLogin after its await: the credentials are checked;
\* a success resets the counter, removes the lock record and stores the
\* session; a failure counts, and the fifth locks the account
FinishLogin ==
    /\ app.page = "login"
    /\ auth.pending # <<>>
    /\ LET c == Head(auth.pending)
           authResult == authenticateUser(c.email, c.password)
           waiting == [auth EXCEPT !.pending = Tail(@)]
           failed == [waiting EXCEPT !.loginAttempts = @ + 1]
       IN  IF authResult.success
           THEN /\ auth' = [waiting EXCEPT
                              !.loginAttempts = 0,
                              !.lockout = <<>>,
                              !.session = << [user |-> authResult.user,
                                   expiresAt |-> clock + SessionLength] >>,
                              !.currentUser = authResult.user,
                              !.isAuthenticated = TRUE]
                /\ last' = Call("finishLogin", c, << TRUE >>, FALSE, FALSE,
                                "success")
           ELSE /\ auth' = IF failed.loginAttempts >= maxLoginAttempts
                           THEN lockAccount(failed, clock) ELSE failed
                /\ last' = Call("finishLogin", c, << FALSE >>, FALSE, FALSE,
                                "error")
    /\ UNCHANGED << patients, examinations, files, storage, loaded,
                    selectedPatientId, pendingConfirm, faults, adds, views,
                    app, clock >>

\* five minutes pass
Tick ==
    /\ clock < MaxClock
    /\ clock' = clock + 1
    /\ last' = Call("tick", Null, <<>>, FALSE, FALSE, "none")
    /\ UNCHANGED << patients, examinations, files, storage, loaded,
                    selectedPatientId, pendingConfirm, faults, adds, views,
                    app, auth >>

\* the five-minute interval of setupSessionTimeoutWarning: a warning and
\* the redirect when isUserAuthenticated() is false
SessionCheck ==
    /\ loaded
    /\ app.sessionTimers
    /\ IF ~isUserAuthenticated(auth)
       THEN /\ app' = [app EXCEPT !.page = "leaving"]
            /\ last' = Call("sessionCheck", Null, <<>>, FALSE, FALSE,
                            "warning")
       ELSE /\ last' = Call("sessionCheck", Null, <<>>, FALSE, FALSE,
                            "none")
            /\ UNCHANGED app
    /\ UNCHANGED << patients, examinations, files, storage, loaded,
                    selectedPatientId, pendingConfirm, faults, adds, views,
                    auth, clock >>

\* the tabs and what fills them: a signed-in user's page, selections, tab
\* switches and the examination form
NextViews ==
    \/ PageLoad
    \/ SelectPatient
    \/ SwitchTab
    \/ ManualSwitchTab
    \/ SubmitExamination

SpecViews == InitSignedIn /\ [][NextViews]_vars

\* what tab v shows, and what it would show if it were computed now from
\* the collections and the selection (the files list counts while the
\* file management section is visible)
ShownIn(v, shown) ==
    CASE v = "dashboard" -> << shown.dashboard >>
      [] v = "patients" -> << shown.patientsList >>
      [] v = "examinations" -> << shown.examinationTab >>
      [] v = "files" ->
            << shown.filesTab.info, shown.filesTab.patient,
               shown.filesTab.management,
               IF shown.filesTab.management
               THEN shown.filesTab.list ELSE <<>> >>

ComputedFor(v, p, e, f, st, selected) ==
    ShownIn(v,
        [patientsList |-> renderPatients(p, selected),
         examinationTab |-> examinationTabFor(p, e, selected),
         filesTab |-> filesTabFor(p, f, selected, [list |-> <<>>]),
         dashboard |->
            [totalPatients |-> Len(p), totalFiles |-> Len(f),
             recentActivity |->
                getRecentActivity(p, e, f, st, maxRecentActivity).ret[1]]])

\* C23: whenever switchTab(v) returns for a signed-in user, tab v shows
\* what is computed from the store's collections and the selection as
\* they are at that moment.
PullOnSwitch ==
    [][(last'.op = "switchTab" /\ isUserAuthenticated(auth)) =>
        ShownIn(last'.arg, views') =
            ComputedFor(last'.arg, patients', examinations', files',
                        storage', selectedPatientId')
      ]_vars

\* the session of a signed-in user: page loads, tab switches through both
\* entry points, logout, the login page, the clock and the periodic check
NextSession ==
    \/ PageLoad
    \/ SelectPatient
    \/ SwitchTab
    \/ ManualSwitchTab
    \/ HandleLogout
    \/ GoToLogin
    \/ HandleLogin
    \/ FinishLogin
    \/ Tick
    \/ SessionCheck

SpecSession == InitSignedIn /\ [][NextSession]_vars

\* C28: a tab switch requested while nobody is signed in, through
\* switchTab or manualSwitchTab, leaves currentTab, the saved application
\* state and the panels as they were and redirects to the login page.
AuthGatesViewChanges ==
    [][(last'.op \in {"switchTab", "manualSwitchTab"}
            /\ ~isUserAuthenticated(auth)) =>
        /\ app'.currentTab = app.currentTab
        /\ app'.saved = app.saved
        /\ views' = views
        /\ app'.page = "leaving"
      ]_vars

\* C29: a periodic session check that runs once the clock has passed the
\* session's expiresAt finds the user not authenticated, shows the
\* warning and starts the redirect to the login page.
SessionExpiryEnforced ==
    [][(last'.op = "sessionCheck"
            /\ ~isSessionValid(auth.session, clock)) =>
        /\ ~isUserAuthenticated(auth')
        /\ last'.notice = "warning"
        /\ app'.page = "leaving"
      ]_vars

\* C22: after a confirmed logout no patient is selected and the current
\* tab is the dashboard, in the page and in the saved application state.
LogoutResetsSelection ==
    [][(last'.op = "handleLogout" /\ last'.arg = TRUE) =>
        /\ selectedPatientId' = Null
        /\ app'.currentTab = "dashboard"
        /\ app'.saved # <<>> =>
              /\ app'.saved[1].selectedPatientId = Null
              /\ app'.saved[1].currentTab = "dashboard"
      ]_vars

\* the login page: attempts, the lockout, the clock, and reloads
NextLogin ==
    \/ HandleLogin
    \/ FinishLogin
    \/ Tick
    \/ GoToLogin

SpecLogin == InitLogin /\ [][NextLogin]_vars

\* C30: while the account is locked no handleLogin call signs the user in
\* or stores a session, whenever it was submitted; the fifth failure sets
\* a lock of 15 minutes; a successful login resets the counter and removes
\* the lock record.
LockoutHolds ==
    [][last'.op = "finishLogin" =>
        /\ isLockedOut(auth, clock) =>
              (~isUserAuthenticated(auth') /\ auth'.session = auth.session)
        /\ (last'.ret = << FALSE >>
                /\ auth.loginAttempts + 1 >= maxLoginAttempts) =>
              (auth'.lockout # <<>>
                 /\ auth'.lockout[1].expiresAt = clock + lockoutDuration)
        /\ last'.ret = << TRUE >> =>
              (auth'.loginAttempts = 0 /\ auth'.lockout = <<>>)
      ]_vars

\* logout and a later login with a storage that can fail a save, so that
\* restoreApplicationState finds a state older than the one App.init saves
NextRestore ==
    \/ PageLoad
    \/ SelectPatient
    \/ SwitchTab
    \/ RestoreTab
    \/ RestorePatient
    \/ HandleLogout
    \/ GoToLogin
    \/ HandleLogin
    \/ FinishLogin

SpecRestore == InitSignedInFaulty /\ [][NextRestore]_vars

====
